---- MODULE Spec2Model ----
(***************************************************************************)
(* State-machine model of the Kalshi KXBTC15M momentum bot:                *)
(*   src/src/api.py           BinanceWSServer (trade -> candle aggregator),*)
(*                            KalshiAPI (market listing, book, results)    *)
(*   src/src/bot_momentum.py  SimpleMomentumBot (decision loop, ledger)    *)
(*                                                                         *)
(* Units.  Time is in whole seconds.  Money is in cents: a price of 0.63   *)
(* is 63, a balance of 1000.0 is 100000, the payout of one contract        *)
(* (1.00) is 100.  Win rates are in thousandths (0.806 is 806).            *)
(***************************************************************************)
EXTENDS Integers, Sequences, FiniteSets, TLC

(***************************************************************************)
(* Program constants                                                       *)
(***************************************************************************)
\* bot_momentum.py:41  self.TRADE_COOLDOWN_SECONDS = 300
TRADE_COOLDOWN_SECONDS == 300
\* bot_momentum.py:429  now > close_time + timedelta(seconds=60)
SETTLE_GRACE_SECONDS == 60
\* bot_momentum.py:589  time.time() - last_scan > 15
SCAN_INTERVAL_SECONDS == 15
\* bot_momentum.py:604  len(self.positions) < 3
MAX_POSITIONS == 3
\* bot_momentum.py:36  self.balance = 1000.0   (cents)
DEFAULT_BALANCE == 100000
\* bot_momentum.py:444  payout = pos['contracts'] * 1.00   (cents per contract)
PAYOUT_PER_CONTRACT == 100

None == "None"
\* an absent state file, an absent signal
NoFile == [exists |-> FALSE]
NoSignal == [exists |-> FALSE]

(***************************************************************************)
(* Bounds of the model                                                     *)
(***************************************************************************)
\* the wall clock when the process is constructed, in seconds since midnight
\* UTC (time.time() is far past the cooldown, so the initial
\* last_trade_time = 0 never blocks a trade)
StartTime == 7000
\* The clock is observed at sample instants, given as offsets from
\* StartTime; they straddle the scan interval (15), the settlement grace
\* (60 after a close), the market window (120 before a close), the hour
\* change at 7200 and the cooldown (300).  The first MaxSamples are used.
SampleOffsets == <<0, 10, 190, 200, 290, 300, 310, 500, 510>>
MaxSamples == 6
\* trades the stream delivers
MaxTrades == 3
\* iterations of the decision loop that are followed while trades arrive
MaxLoops == 2

SampleTimes ==
    {StartTime + SampleOffsets[k] :
        k \in {j \in DOMAIN SampleOffsets : j <= MaxSamples}}

VARIABLES
    now,              \* wall clock: time.time() / datetime.now(timezone.utc)
    balance,          \* SimpleMomentumBot.balance (cents)
    positions,        \* SimpleMomentumBot.positions: sequence of position dicts
    wins,             \* SimpleMomentumBot.wins
    losses,           \* SimpleMomentumBot.losses
    last_trade_time,  \* SimpleMomentumBot.last_trade_time
    last_scan,        \* local last_scan of run()
    state_file,       \* contents of momentum_bot_state.json, or NoFile
    calibrated_rates, \* SimpleMomentumBot.calibrated_rates: rule id -> win rate
    calibrations,     \* history: calls of calibrate_win_rates so far
    market_result,    \* settlement source: ticker -> None (not finalized) or result
    poll,             \* history: what the latest settle_positions call did
    settle_count,     \* history: ticker -> times lines 447-451 ran for it
    gate,             \* history: outcome of the latest execution-gate pass
    open_times,       \* history: the clock at each position opening
    account,          \* history: the ledger at the start, the positions opened and settled since
    \* --- BinanceWSServer (receive thread) ---
    heap,             \* the candle dicts created so far, by object identity
    current_candle,   \* BinanceWSServer.current_candle: index into heap, 0 = None
    _current_minute,  \* << >> = None, <<m>> = bucket m
    _minute_open,     \* << >> = None, <<p>> = price p
    _minute_high,
    _minute_low,
    _minute_volume,
    _taker_buy_volume,
    ws_pc,            \* position of the receive thread inside on_message
    ws_trade,         \* the trade on_message is processing
    \* --- decision loop (update_history, get_current_indicators) ---
    loop_pc,          \* position of the decision loop in its iteration
    loop_c,           \* local c: the candle dict the loop holds (index into heap)
    loop_row,         \* local new_row: the fields read so far
    history_df,       \* SimpleMomentumBot.history_df: sequence of rows
    loops,            \* history: iterations completed
    trade_log,        \* history: the trades fully ingested, in arrival order
    closed_candles,   \* history: each candle as it was when line 69 closed it
    published,        \* history: each candle as line 89 exposed it
    reads,            \* history: what the loop's candle reads returned
    \* --- the functions of the signal engine and the sizer, called alone ---
    call,             \* history: the latest call, its arguments and its result
    \* --- BinanceWSServer (connection supervisor) ---
    is_running,       \* BinanceWSServer.is_running
    sup_pc,           \* position of the supervisor thread inside _run
    ws,               \* BinanceWSServer.ws: 0 = None, 1 = the latest WebSocketApp
    sock_open,        \* whether the connection of that WebSocketApp is open
    reconnect_count,  \* BinanceWSServer.reconnect_count
    last_update,      \* BinanceWSServer.last_update
    last_heartbeat,   \* BinanceWSServer.last_heartbeat
    sub_sent,         \* history: a subscription was sent on the latest connection
    stopped,          \* history: stop() has been called
    feed_log,         \* history: what the supervisor did after stop(), and trades
                      \* processed on a connection without subscription
    iter,             \* history: what the latest decision-loop iteration did
    \* --- the try/except of the decision loop (run, lines 535-693) ---
    loop_state,       \* "running", or "ended" once the while loop is left
    fault,            \* history: the latest exception raised inside an iteration
    cycle             \* history: parity of the iterations counted so far

ledger_vars == <<now, balance, positions, wins, losses, last_trade_time,
                 last_scan, state_file, calibrated_rates, calibrations,
                 market_result, poll, settle_count, gate, open_times,
                 account>>

candle_vars == <<heap, current_candle, _current_minute, _minute_open,
                 _minute_high, _minute_low, _minute_volume, _taker_buy_volume,
                 ws_pc, ws_trade, loop_pc, loop_c, loop_row, history_df, loops,
                 trade_log, closed_candles, published, reads>>

feed_vars == <<is_running, sup_pc, ws, sock_open, reconnect_count, last_update,
               last_heartbeat, sub_sent, stopped, feed_log, iter>>

loop_vars == <<loop_state, fault, cycle>>

vars == <<ledger_vars, candle_vars, call, feed_vars, loop_vars>>

(***************************************************************************)
(* Markets and the settlement source                                       *)
(***************************************************************************)
\* The listing returned by KalshiAPI.get_markets: ticker and close_time.
\* One market of another series and one without a close time are listed too.
\* (has_close_time is FALSE for a market whose 'close_time' is missing.)
Listing ==
    << [ticker |-> "KXBTC15M-A", has_close_time |-> TRUE, close_time |-> StartTime + 130],
       [ticker |-> "KXETH15M-X", has_close_time |-> TRUE, close_time |-> StartTime + 200],
       [ticker |-> "KXBTC15M-B", has_close_time |-> TRUE, close_time |-> StartTime + 430],
       [ticker |-> "kxbtc15m-c", has_close_time |-> TRUE, close_time |-> StartTime + 1180],
       [ticker |-> "KXBTC15M-N", has_close_time |-> FALSE, close_time |-> 0] >>

Range(s) == {s[i] : i \in DOMAIN s}

\* a market of the series that closed before the process started, held by a
\* position of the state file
OldTicker == "KXBTC15M-Z"
OldTicker2 == "KXBTC15M-Y"

Tickers == {m.ticker : m \in Range(Listing)} \cup {OldTicker, OldTicker2}

\* market.get('result') of a finalized market
Results == {"yes", "no", ""}

\* str.upper() on a result
Upper(r) == CASE r = "yes" -> "YES" [] r = "no" -> "NO" [] OTHER -> r

\* KalshiAPI.get_market_result: the result of a finalized market when the
\* query succeeds (status 200, no exception), None otherwise
get_market_result(ticker, ok) ==
    IF ticker \in ok /\ market_result[ticker] # None
    THEN market_result[ticker]
    ELSE None

(***************************************************************************)
(* Persistence                                                             *)
(***************************************************************************)
\* SimpleMomentumBot.save_state: the record written to the state file
save_state(b, ps, w, l) ==
    [exists |-> TRUE, balance |-> b, positions |-> ps, wins |-> w, losses |-> l]

\* (variant: the positions of the file are not taken over)
load_state_without_positions(file) ==
    IF ~file.exists
    THEN [balance |-> DEFAULT_BALANCE, positions |-> << >>, wins |-> 0, losses |-> 0]
    ELSE [balance |-> file.balance, positions |-> << >>,
          wins |-> file.wins, losses |-> file.losses]

\* SimpleMomentumBot.load_state, from the defaults of __init__ (lines 36-39):
\* a missing file leaves them, an existing one replaces the four fields.
\* json.dump and json.load map the numbers, strings, booleans, lists and
\* string-keyed dicts of the state to themselves.
load_state(file) ==
    IF ~file.exists
    THEN [balance |-> DEFAULT_BALANCE, positions |-> << >>, wins |-> 0, losses |-> 0]
    ELSE [balance |-> file.balance, positions |-> file.positions,
          wins |-> file.wins, losses |-> file.losses]

(***************************************************************************)
(* settle_positions                                                        *)
(***************************************************************************)
\* (variant: the grace period forgotten)
past_trigger_no_grace(pos, t) == t > pos.close_time

\* line 429: the position's settlement trigger
past_trigger(pos, t) == t > pos.close_time + SETTLE_GRACE_SECONDS

\* (variant: the guard forgotten)
already_settled_unguarded(pos) == FALSE

\* line 431: the guard against double processing
already_settled(pos) == pos.settled

\* (variant: the position is not carried over)
settle_unavailable_dropped(acc, i) == acc

\* lines 437-441: outcome unavailable, the position is kept
settle_unavailable(acc, i) ==
    [acc EXCEPT !.new_positions = Append(@, acc.positions[i])]

\* (variant: the profit is credited instead of the payout)
credit_profit(acc, pos, result) ==
    LET won == (Upper(result) = pos.direction)
        payout == IF won THEN pos.contracts * PAYOUT_PER_CONTRACT ELSE 0
    IN  IF won
        THEN [acc EXCEPT !.balance = @ + payout - pos.contracts * pos.price,
                         !.wins = @ + 1]
        ELSE [acc EXCEPT !.losses = @ + 1]

\* lines 443-451: win or loss
credit(acc, pos, result) ==
    LET won == (Upper(result) = pos.direction)
        payout == IF won THEN pos.contracts * PAYOUT_PER_CONTRACT ELSE 0
    IN  IF won
        THEN [acc EXCEPT !.balance = @ + payout, !.wins = @ + 1]
        ELSE [acc EXCEPT !.losses = @ + 1]

\* lines 443-473: outcome available; the position is marked in place, the
\* state is saved with self.positions still the list being iterated, and the
\* position is not carried over to new_positions
settle_resolved(acc, i, result) ==
    LET a1 == credit(acc, acc.positions[i], result)
        a2 == [a1 EXCEPT !.positions[i].settled = TRUE]
    IN  [a2 EXCEPT !.state_file =
                       save_state(a2.balance, a2.positions, a2.wins, a2.losses)]

\* lines 427-475: the body of the loop for position i.  The fields queried,
\* unavailable, resolved and dropped of acc are history: which positions the
\* settlement source was asked about, and what became of each.
settle_step(i, acc, t, ok) ==
    LET pos == acc.positions[i] IN
    IF past_trigger(pos, t)
    THEN IF already_settled(pos)
         THEN [acc EXCEPT !.dropped = @ \cup {pos.ticker}]
         ELSE LET result == get_market_result(pos.ticker, ok)
                  asked == [acc EXCEPT !.queried = @ \cup {pos.ticker}]
              IN  IF result = None
                  THEN [settle_unavailable(asked, i)
                          EXCEPT !.unavailable = @ \cup {pos.ticker}]
                  ELSE [settle_resolved(asked, i, result)
                          EXCEPT !.resolved = Append(@,
                                     [pos |-> pos, result |-> result])]
    ELSE [acc EXCEPT !.new_positions = Append(@, pos)]

\* lines 426-475: the loop over self.positions, from position i to the one
\* before position j
RECURSIVE settle_loop_until(_, _, _, _, _)
settle_loop_until(i, j, acc, t, ok) ==
    IF i >= j \/ i > Len(acc.positions) THEN acc
    ELSE settle_loop_until(i + 1, j, settle_step(i, acc, t, ok), t, ok)

\* the whole loop
settle_loop(i, acc, t, ok) ==
    settle_loop_until(i, Len(acc.positions) + 1, acc, t, ok)

\* the accumulator settle_positions starts from (line 424)
settle_start(b, ps, w, l, file) ==
    [balance |-> b, positions |-> ps, wins |-> w, losses |-> l,
     state_file |-> file, new_positions |-> << >>,
     queried |-> {}, unavailable |-> {}, resolved |-> << >>, dropped |-> {}]

\* SimpleMomentumBot.settle_positions at time t, with the queries of the
\* tickers in ok succeeding; the result carries the new ledger, and line 477
\* makes new_positions the position list
settle_positions(b, ps, w, l, file, t, ok) ==
    settle_loop(1, settle_start(b, ps, w, l, file), t, ok)

(***************************************************************************)
(* Signal engine                                                           *)
(***************************************************************************)
\* dict.get(key, default)
Get(d, key, default) == IF key \in DOMAIN d THEN d[key] ELSE default

\* (variant: the 15-step drop rule is looked at first)
get_signal_drop_first(indicators, rates) ==
    LET rsi == Get(indicators, "rsi_14", 50)
        return_15m == Get(indicators, "return_15m", 0)
        return_5m == Get(indicators, "return_5m", 0)
    IN  IF return_15m < -30
        THEN [exists |-> TRUE, direction |-> "YES", name |-> "15m_drop",
              wr |-> Get(rates, "15m_drop", 696)]
        ELSE IF rsi > 80 /\ return_5m < 0
        THEN [exists |-> TRUE, direction |-> "NO", name |-> "RSI>80+DIP_GOLD",
              wr |-> Get(rates, "rsi_80_confirm", 806)]
        ELSE IF rsi > 75 /\ return_5m < 0
        THEN [exists |-> TRUE, direction |-> "NO", name |-> "RSI>75+DIP",
              wr |-> Get(rates, "rsi_75_confirm", 777)]
        ELSE IF rsi > 70 /\ return_5m < 0
        THEN [exists |-> TRUE, direction |-> "NO", name |-> "RSI>70+DIP",
              wr |-> Get(rates, "rsi_70_confirm", 719)]
        ELSE [exists |-> FALSE]

\* strategy.get_signal.  The name stands for the formatted string of the
\* rule, without the indicator value it embeds.  rsi_14 is in RSI points, the returns in units of
\* 0.0001 (so -0.003 is -30); win rates in thousandths.
get_signal(indicators, rates) ==
    LET rsi == Get(indicators, "rsi_14", 50)
        return_15m == Get(indicators, "return_15m", 0)
        return_5m == Get(indicators, "return_5m", 0)
    IN  IF rsi > 80 /\ return_5m < 0
        THEN [exists |-> TRUE, direction |-> "NO", name |-> "RSI>80+DIP_GOLD",
              wr |-> Get(rates, "rsi_80_confirm", 806)]
        ELSE IF rsi > 75 /\ return_5m < 0
        THEN [exists |-> TRUE, direction |-> "NO", name |-> "RSI>75+DIP",
              wr |-> Get(rates, "rsi_75_confirm", 777)]
        ELSE IF rsi > 70 /\ return_5m < 0
        THEN [exists |-> TRUE, direction |-> "NO", name |-> "RSI>70+DIP",
              wr |-> Get(rates, "rsi_70_confirm", 719)]
        ELSE IF return_15m < -30
        THEN [exists |-> TRUE, direction |-> "YES", name |-> "15m_drop",
              wr |-> Get(rates, "15m_drop", 696)]
        ELSE NoSignal

\* bot_momentum.py:269
BEST_HOURS_UTC == {22, 6, 5, 1, 17, 0, 21, 16, 8, 10}

\* datetime.now(timezone.utc).hour
Hour(t) == (t \div 3600) % 24

\* (variant: the boost is given in every hour)
bot_get_signal_boost_always(indicators, rates, t) ==
    LET result == get_signal(indicators, rates) IN
    IF result.exists THEN [result EXCEPT !.wr = @ + 30] ELSE [exists |-> FALSE]

\* SimpleMomentumBot.get_signal: the shared signal plus the hourly boost
bot_get_signal(indicators, rates, t) ==
    LET result == get_signal(indicators, rates) IN
    IF result.exists
    THEN LET hour_boost == IF Hour(t) \in BEST_HOURS_UTC THEN 30 ELSE 0
         IN  [result EXCEPT !.wr = @ + hour_boost]
    ELSE NoSignal

(***************************************************************************)
(* RSI (add_technical_indicators, features.py:41-54)                       *)
(***************************************************************************)
\* A cell of a pandas column: NaN, or a number.  Averages are kept in
\* hundredths of a price unit (RSI_SCALE), rounded up, so that a positive
\* average stays positive as it does in double precision over the rows of
\* the history; RSI values are exact fractions of such averages.
RSI_PERIOD == 14
RSI_SCALE == 100
NaN == [nan |-> TRUE]
Num(v) == [nan |-> FALSE, v |-> v]

\* line 44: delta = df['close'].diff(), at row i
diff(close, i) == IF i = 1 THEN NaN ELSE Num(close[i] - close[i - 1])

\* line 45: gain = delta.where(delta > 0, 0)
gain(close, i) ==
    LET delta == diff(close, i) IN
    IF ~delta.nan /\ delta.v > 0 THEN delta.v ELSE 0

\* line 46: loss = -delta.where(delta < 0, 0)
loss(close, i) ==
    LET delta == diff(close, i) IN
    IF ~delta.nan /\ delta.v < 0 THEN 0 - delta.v ELSE 0

\* ewm(alpha=1/14, adjust=False).mean() of column x (gain or loss) at row
\* i: y[1] = x[1], y[i] = (13 * y[i-1] + x[i]) / 14
RECURSIVE ewm_mean(_, _, _)
ewm_mean(x, close, i) ==
    LET xi == IF x = "gain" THEN gain(close, i) ELSE loss(close, i) IN
    IF i = 1 THEN RSI_SCALE * xi
    ELSE ((RSI_PERIOD - 1) * ewm_mean(x, close, i - 1) + RSI_SCALE * xi
          + (RSI_PERIOD - 1)) \div RSI_PERIOD

\* lines 49-50: min_periods=14 leaves NaN in the first 13 rows
ewm(x, close, i) ==
    IF i < RSI_PERIOD THEN NaN ELSE Num(ewm_mean(x, close, i))

\* (variant: a zero average loss is divided by as it is: a positive gain
\* over zero is infinite and gives an RSI of 100, zero over zero is NaN)
replace_zero_kept(avg_loss) ==
    IF ~avg_loss.nan /\ avg_loss.v = 0 THEN [nan |-> FALSE, v |-> 0] ELSE avg_loss

\* line 52: avg_loss.replace(0, np.nan)
replace_zero(avg_loss) ==
    IF ~avg_loss.nan /\ avg_loss.v = 0 THEN NaN ELSE avg_loss

\* lines 52-54 at the latest row: rs = avg_gain / avg_loss, then
\* 100 - 100 / (1 + rs) as a fraction num / den, then fillna(50)
rsi_14(close) ==
    LET n == Len(close)
        avg_gain == ewm("gain", close, n)
        avg_loss == replace_zero(ewm("loss", close, n))
    IN  IF avg_gain.nan \/ avg_loss.nan
        THEN [num |-> 50, den |-> 1]
        ELSE IF avg_loss.v = 0
        THEN IF avg_gain.v = 0 THEN [num |-> 50, den |-> 1]
             ELSE [num |-> 100, den |-> 1]
        ELSE [num |-> 100 * (avg_loss.v + avg_gain.v) - 100 * avg_loss.v,
              den |-> avg_loss.v + avg_gain.v]

(***************************************************************************)
(* Calibration (calibrate_win_rates, bot_momentum.py:99-170)               *)
(***************************************************************************)
\* The rows of the historical data that satisfy the mask of one table key:
\* n rows, of which won have the outcome of the key's direction.
CalibrationSamples ==
    { [n |-> 0, won |-> 0], [n |-> 19, won |-> 15], [n |-> 20, won |-> 20],
      [n |-> 20, won |-> 0], [n |-> 49, won |-> 40], [n |-> 50, won |-> 49] }

\* What calibration reads: whether the data file can be read and processed
\* (ok), and the sample of each key the success path fills in.  The keys
\* rsi_80 and 15m_spike, which no rule looks up, get an empty sample.
CalibrationData ==
    { [ok |-> ok, rsi_80 |-> other, rsi_70_confirm |-> s70, drop |-> sdrop,
       spike |-> other] :
         ok \in {TRUE}, other \in {[n |-> 0, won |-> 0]},
         s70 \in CalibrationSamples, sdrop \in CalibrationSamples }
    \cup { [ok |-> FALSE, rsi_80 |-> z, rsi_70_confirm |-> z, drop |-> z,
            spike |-> z] : z \in {[n |-> 0, won |-> 0]} }

\* df.loc[mask, col].mean() of a 0/1 column, in thousandths
mean(sample) == (1000 * sample.won) \div sample.n

\* one `if mask.sum() >= min_size: mean else: default` of lines 126-155
calibrated_rate(sample, min_size, default) ==
    IF sample.n >= min_size THEN mean(sample) ELSE default

\* calibrate_win_rates: the table of the success path (lines 123-161) or
\* that of the exception path (lines 163-170)
calibrate_win_rates(data) ==
    IF data.ok
    THEN ("rsi_80" :> calibrated_rate(data.rsi_80, 20, 676))
         @@ ("rsi_70_confirm" :> calibrated_rate(data.rsi_70_confirm, 50, 670))
         @@ ("15m_drop" :> calibrated_rate(data.drop, 20, 708))
         @@ ("15m_spike" :> calibrated_rate(data.spike, 20, 600))
    ELSE ("rsi_80_confirm" :> 730) @@ ("rsi_75" :> 673) @@ ("15m_drop" :> 837)
         @@ ("15m_spike" :> 600)

(***************************************************************************)
(* Position sizer                                                          *)
(***************************************************************************)
\* (expected_wr * (1 - price)) - ((1 - expected_wr) * price), in units of
\* 0.00001 for a win rate in thousandths and a price in cents
expected_value(expected_wr, price) ==
    expected_wr * (100 - price) - (1000 - expected_wr) * price

\* (variant: the hard ceiling of 50.00 is not applied)
calculate_bet_size_no_ceiling(expected_wr, price, b) ==
    IF price <= 0 \/ price >= 100
    THEN [num |-> 0, den |-> 1]
    ELSE LET knum == expected_wr - 10 * price
             kden == 40 * (100 - price)
         IN  IF knum <= 0 THEN [num |-> 0, den |-> 1]
             ELSE IF 10 * knum >= kden THEN [num |-> b, den |-> 10]
             ELSE [num |-> b * knum, den |-> kden]

\* SimpleMomentumBot.calculate_bet_size: the stake in cents as the exact
\* fraction num/den.  With b = (1-price)/price, kelly = (p*b - q)/b is
\* (p - price)/(1 - price), so a quarter of it is knum/kden below (win rate
\* in thousandths, price in cents); it is clamped to [0, 0.10], multiplied
\* by the balance and capped at 50.0.
calculate_bet_size(expected_wr, price, b) ==
    IF price <= 0 \/ price >= 100
    THEN [num |-> 0, den |-> 1]
    ELSE LET knum == expected_wr - 10 * price
             kden == 40 * (100 - price)
             bet == IF knum <= 0 THEN [num |-> 0, den |-> 1]
                    ELSE IF 10 * knum >= kden THEN [num |-> b, den |-> 10]
                    ELSE [num |-> b * knum, den |-> kden]
         IN  IF bet.num <= 5000 * bet.den THEN bet ELSE [num |-> 5000, den |-> 1]

(***************************************************************************)
(* Market selector and price discovery                                     *)
(***************************************************************************)
NoMarket == [exists |-> FALSE]

\* ticker.upper().startswith('KXBTC15M'), on the tickers of the listing
in_series(ticker) ==
    ticker \in {"KXBTC15M-A", "KXBTC15M-B", "kxbtc15m-c", "KXBTC15M-N",
                "KXBTC15M-D"}

\* (variant: any market in the window replaces the one found so far)
better_market_latest(m, t, best) ==
    /\ 120 < m.close_time - t
    /\ m.close_time - t < 880

\* lines 346-349: the acceptance window and the running minimum
better_market(m, t, best) ==
    /\ 120 < m.close_time - t
    /\ m.close_time - t < 880
    /\ (~best.exists \/ m.close_time - t < best.close_time - t)

\* lines 331-349: the loop over the listed markets
RECURSIVE find_loop(_, _, _, _)
find_loop(markets, i, t, best) ==
    IF i > Len(markets) THEN best
    ELSE LET m == markets[i] IN
         IF ~in_series(m.ticker) \/ ~m.has_close_time
         THEN find_loop(markets, i + 1, t, best)
         ELSE IF better_market(m, t, best)
         THEN find_loop(markets, i + 1, t,
                        [exists |-> TRUE, ticker |-> m.ticker, close_time |-> m.close_time])
         ELSE find_loop(markets, i + 1, t, best)

\* SimpleMomentumBot.find_best_market over the markets get_markets returned
find_best_market(markets, t) == find_loop(markets, 1, t, NoMarket)

\* Order books returned by KalshiAPI.get_orderbook: bid prices in cents per
\* side, best bid last; NoBook is a non-200 response (None).
NoBook == [exists |-> FALSE]
Books ==
    { NoBook,
      [exists |-> TRUE, yes |-> << >>, no |-> << >>],
      [exists |-> TRUE, yes |-> <<30, 40>>, no |-> <<20, 55>>],
      [exists |-> TRUE, yes |-> <<21>>, no |-> <<32>>],
      [exists |-> TRUE, yes |-> <<5>>, no |-> <<93>>] }

NoPrice == [exists |-> FALSE]

\* SimpleMomentumBot.get_best_price, in cents: (100 - best opposing bid) + 3
get_best_price(book, direction) ==
    IF ~book.exists
    THEN NoPrice
    ELSE LET bids == IF direction = "YES" THEN book.no ELSE book.yes IN
         IF bids # << >>
         THEN [exists |-> TRUE, price |-> (100 - bids[Len(bids)]) + 3]
         ELSE NoPrice

(***************************************************************************)
(* Execution gate (run, lines 592-674)                                     *)
(***************************************************************************)
\* (variant: the cooldown measured in the wrong direction)
in_cooldown_reversed(t, last) == last - t > TRADE_COOLDOWN_SECONDS

\* lines 593-594
in_cooldown(t, last) == t - last < TRADE_COOLDOWN_SECONDS

\* (variant: the cap is not applied)
below_cap_off(ps) == TRUE

\* line 604
below_cap(ps) == Len(ps) < MAX_POSITIONS

\* (variant: the held markets are not looked at)
already_in_market_unchecked(ps, ticker) == FALSE

\* line 615
already_in_market(ps, ticker) == \E i \in DOMAIN ps : ps[i].ticker = ticker

\* (variant: the band is not applied)
bad_price_band_off(price) == price = 0

\* line 620, for a price that is not None (cents)
bad_price(price) == price = 0 \/ price <= 10 \/ price >= 90

\* (variant: any non-negative EV is let through)
below_min_ev_zero(expected_wr, price) == expected_value(expected_wr, price) < 0

\* line 635: ev < min_ev_threshold (0.02)
below_min_ev(expected_wr, price) == expected_value(expected_wr, price) < 2000

\* (variant: no minimum stake)
min_stake_off(bet) == TRUE

\* line 645: bet_amount >= 5.0
min_stake(bet) == bet.num >= 500 * bet.den

\* line 646: contracts = int(bet_amount / price)
contract_count(bet, price) == bet.num \div (bet.den * price)

\* line 649
affordable(contracts, cost, b) == contracts >= 1 /\ cost <= b

NoTrade == [exists |-> FALSE]

\* The gates in the order of the code.  The result names the gate that
\* rejected the signal, or carries the trade to open and its cost.
\* "price_error" is the TypeError that formatting the skip message raises
\* when get_best_price returned None (line 623).
execution_gate(signal, t, markets, book, b, ps, last) ==
    LET reject(why) == [outcome |-> why, cost |-> 0, trade |-> NoTrade, wr |-> 0] IN
    IF ~signal.exists THEN reject("no_signal")
    ELSE IF in_cooldown(t, last) THEN reject("cooldown")
    ELSE IF ~below_cap(ps) THEN reject("cap")
    ELSE LET market == find_best_market(markets, t) IN
    IF ~market.exists THEN reject("no_market")
    ELSE IF already_in_market(ps, market.ticker) THEN reject("duplicate")
    ELSE LET p == get_best_price(book, signal.direction) IN
    IF ~p.exists THEN reject("price_error")
    ELSE IF bad_price(p.price) THEN reject("bad_price")
    ELSE IF below_min_ev(signal.wr, p.price) THEN reject("ev")
    ELSE LET bet == calculate_bet_size(signal.wr, p.price, b) IN
    IF ~min_stake(bet) THEN reject("size")
    ELSE LET contracts == contract_count(bet, p.price)
             cost == contracts * p.price
         IN  IF affordable(contracts, cost, b)
             THEN [outcome |-> "opened", cost |-> cost, wr |-> signal.wr,
                   trade |-> [ticker |-> market.ticker,
                              direction |-> signal.direction,
                              signal |-> signal.name, price |-> p.price,
                              contracts |-> contracts,
                              close_time |-> market.close_time,
                              settled |-> FALSE]]
             ELSE reject("size")

(***************************************************************************)
(* Initial state: the state after SimpleMomentumBot.__init__               *)
(***************************************************************************)
\* State files a previous run of the bot can have left: none; one written
\* when a position was opened; one written by settle_positions, which saves
\* the list it is iterating, the settled position still in it and marked.
OldPosition(settled) ==
    [ticker |-> OldTicker, direction |-> "NO", signal |-> "RSI>70+DIP",
     price |-> 63, contracts |-> 79,
     close_time |-> IF settled THEN StartTime - 200 ELSE StartTime - 60,
     settled |-> settled]

\* a position a previous run opened in a market that is still listed
ListedPosition ==
    [ticker |-> "KXBTC15M-B", direction |-> "YES", signal |-> "15m_drop",
     price |-> 48, contracts |-> 100, close_time |-> StartTime + 430,
     settled |-> FALSE]

\* a second position that was settled in the same settle_positions call
OldPosition2 ==
    [ticker |-> OldTicker2, direction |-> "YES", signal |-> "15m_drop",
     price |-> 48, contracts |-> 100, close_time |-> StartTime - 200,
     settled |-> TRUE]

\* ... and one with two open positions, one of a nearly empty account, and
\* one written by settle_positions after it settled two of three positions
InitialFiles ==
    { NoFile,
      save_state(DEFAULT_BALANCE - 79 * 63, <<OldPosition(FALSE)>>, 0, 0),
      save_state(DEFAULT_BALANCE - 79 * 63 + 7900, <<OldPosition(TRUE)>>, 1, 0),
      save_state(DEFAULT_BALANCE - 79 * 63 - 100 * 48,
                 <<OldPosition(FALSE), ListedPosition>>, 0, 0),
      save_state(3000, << >>, 0, 3),
      save_state(DEFAULT_BALANCE - 79 * 63 + 7900 - 100 * 48 - 100 * 48,
                 <<OldPosition(TRUE), OldPosition2, ListedPosition>>, 1, 1) }

\* Tables calibrate_win_rates can return (thousandths): the one of the
\* success path (lines 123-161, here with the values used when the samples
\* are small) and the one of the exception path (lines 165-170).
CalibrationTables ==
    { ("rsi_80" :> 676) @@ ("rsi_70_confirm" :> 670) @@ ("15m_drop" :> 708)
          @@ ("15m_spike" :> 600),
      ("rsi_80_confirm" :> 730) @@ ("rsi_75" :> 673) @@ ("15m_drop" :> 837)
          @@ ("15m_spike" :> 600) }

NoPoll ==
    [t |-> 0,
     entry |-> [balance |-> 0, positions |-> << >>, wins |-> 0, losses |-> 0,
                state_file |-> NoFile],
     marked |-> << >>, queried |-> {},
     unavailable |-> {}, resolved |-> << >>, dropped |-> {},
     prev_unavailable |-> {}]

NoLedger ==
    [balance |-> 0, positions |-> << >>, wins |-> 0, losses |-> 0,
     last_trade_time |-> 0, state_file |-> NoFile]

\* history of a pass through the execution gate: the ledger on entry, the
\* ledger when the gate is left (before settle_positions), and, for an
\* opening, the win rate and the order book that were used
NoGate ==
    [outcome |-> "none", settle_called |-> FALSE, t |-> 0,
     entry |-> NoLedger, after |-> NoLedger, wr |-> 0, book |-> NoBook,
     signal |-> NoSignal]

InitLedger ==
    /\ now = StartTime
    /\ state_file \in InitialFiles
    /\ balance = load_state(state_file).balance
    /\ positions = load_state(state_file).positions
    /\ wins = load_state(state_file).wins
    /\ losses = load_state(state_file).losses
    /\ last_trade_time = 0
    /\ last_scan = 0
    /\ calibrated_rates \in CalibrationTables
    /\ calibrations = 1
    /\ market_result = [k \in Tickers |-> None]
    /\ poll = [NoPoll EXCEPT !.entry =
                  [balance |-> balance, positions |-> positions, wins |-> wins,
                   losses |-> losses, state_file |-> state_file],
                              !.marked = positions]
    /\ settle_count = [k \in Tickers |-> 0]
    /\ gate = NoGate
    /\ open_times = << >>
    /\ account = [start |-> [balance |-> balance, count |-> wins + losses],
                  opened |-> << >>, settled |-> {}]

(***************************************************************************)
(* Environment                                                             *)
(***************************************************************************)
\* the clock advances
Tick ==
    /\ \E t \in SampleTimes : t > now
    /\ now' = CHOOSE t \in SampleTimes :
                  t > now /\ \A u \in SampleTimes : u > now => t <= u
    /\ UNCHANGED <<balance, positions, wins, losses, last_trade_time, last_scan,
                   state_file, calibrated_rates, calibrations, market_result,
                   poll,
                   settle_count, gate, open_times, account>>
    /\ UNCHANGED <<candle_vars, call, feed_vars, loop_vars>>

\* the exchange finalizes the market of a held position with a result, at
\* or after its close time; the result never changes afterwards
finalize ==
    \E i \in DOMAIN positions, r \in Results :
        /\ market_result[positions[i].ticker] = None
        /\ now >= positions[i].close_time
        /\ market_result' = [market_result EXCEPT ![positions[i].ticker] = r]
        /\ UNCHANGED <<now, balance, positions, wins, losses, last_trade_time,
                       last_scan, state_file, calibrated_rates, calibrations,
                       poll,
                       settle_count, gate, open_times, account>>
        /\ UNCHANGED <<candle_vars, call, feed_vars, loop_vars>>

(***************************************************************************)
(* The decision loop: one iteration of run (lines 535-693), on the ledger  *)
(***************************************************************************)
\* Feature vectors get_current_indicators can return (rsi_14, return_5m,
\* return_15m)
IndicatorInputs ==
    { [rsi_14 |-> 85, return_5m |-> -12, return_15m |-> -40],
      [rsi_14 |-> 72, return_5m |-> -3, return_15m |-> 10],
      [rsi_14 |-> 50, return_5m |-> 4, return_15m |-> -31],
      [rsi_14 |-> 50, return_5m |-> 0, return_15m |-> 0] }

\* history: the ledger on entry to settle_positions and what the call did
poll_record(t, b, ps, w, l, file, s) ==
    [t |-> t,
     entry |-> [balance |-> b, positions |-> ps, wins |-> w, losses |-> l,
                state_file |-> file],
     marked |-> s.positions, queried |-> s.queried,
     unavailable |-> s.unavailable, resolved |-> s.resolved,
     dropped |-> s.dropped, prev_unavailable |-> poll.unavailable]

\* the history of the ledger after a scan in which the gate had outcome g
\* and lines 443-451 ran for the positions of resolved
booked(a, g, resolved) ==
    [a EXCEPT !.opened = IF g.outcome = "opened" THEN Append(@, g.trade) ELSE @,
              !.settled = @ \cup {resolved[i] : i \in DOMAIN resolved}]

\* (variant: the cost is not taken from the balance)
open_position_undebited(g, b, ps, w, l) ==
    [balance |-> b, positions |-> Append(ps, g.trade),
     state_file |-> save_state(b, Append(ps, g.trade), w, l)]

\* lines 650-666: the balance is debited, the trade appended and the state
\* saved
open_position(g, b, ps, w, l) ==
    [balance |-> b - g.cost, positions |-> Append(ps, g.trade),
     state_file |-> save_state(b - g.cost, Append(ps, g.trade), w, l)]

gate_record(g, signal, book, b1, ps1, last1, file1) ==
    [outcome |-> g.outcome, settle_called |-> g.outcome # "price_error", t |-> now,
     entry |-> [balance |-> balance, positions |-> positions, wins |-> wins,
                losses |-> losses, last_trade_time |-> last_trade_time,
                state_file |-> state_file],
     after |-> [balance |-> b1, positions |-> ps1, wins |-> wins,
                losses |-> losses, last_trade_time |-> last1,
                state_file |-> file1],
     wr |-> g.wr,
     book |-> IF g.outcome = "opened" THEN book ELSE NoBook,
     signal |-> IF g.outcome = "opened" THEN signal ELSE NoSignal]

\* lines 589-677: the scan block.  The gate may open a position (lines
\* 650-666), then settle_positions runs, unless the gate raised.
scan(signal, markets, book, ok) ==
    \E g \in {execution_gate(signal, now, markets, book, balance, positions,
                             last_trade_time)} :
    \E opened \in {g.outcome = "opened"} :
    \E o \in {IF opened
               THEN open_position(g, balance, positions, wins, losses)
               ELSE [balance |-> balance, positions |-> positions,
                     state_file |-> state_file]} :
    \E b1 \in {o.balance} :
    \E ps1 \in {o.positions} :
    \E file1 \in {o.state_file} :
    \E s \in {settle_positions(b1, ps1, wins, losses, file1, now, ok)} :
        /\ last_scan' = now
        /\ last_trade_time' = IF opened THEN now ELSE last_trade_time
        /\ gate' = gate_record(g, signal, book, b1, ps1, last_trade_time', file1)
        /\ open_times' = IF opened THEN Append(open_times, now) ELSE open_times
        /\ account' = booked(account, g, IF g.outcome = "price_error" THEN << >>
                                         ELSE s.resolved)
        /\ IF g.outcome = "price_error"
           THEN UNCHANGED <<balance, positions, wins, losses, state_file,
                            poll, settle_count>>
           ELSE /\ balance' = s.balance
                /\ positions' = s.new_positions
                /\ wins' = s.wins
                /\ losses' = s.losses
                /\ state_file' = s.state_file
                /\ poll' = poll_record(now, b1, ps1, wins, losses, file1, s)
                /\ settle_count' =
                     [k \in Tickers |->
                        settle_count[k] + Cardinality({j \in DOMAIN s.resolved :
                                                       s.resolved[j].pos.ticker = k})]

\* the markets settle_positions will query in this iteration and whose
\* answer depends on the query succeeding (a market that is not finalized
\* yields None either way)
due_tickers ==
    {positions[i].ticker : i \in {j \in DOMAIN positions :
        /\ past_trigger(positions[j], now)
        /\ market_result[positions[j].ticker] # None}}

\* api.py:147-154 force_reconnect: self.ws, when there is one, is closed
force_reconnect(w, open) == IF w # 0 THEN FALSE ELSE open

\* One iteration, on the ledger and on the connection.  feed is what the
\* iteration finds of the trade stream: no candle yet (line 539), a stale
\* stream (line 545, which forces a reconnect), or a live one.  The feature
\* vector, the listing and the order book come from the given sets.
iteration(feed, Indicators, Listed, BookSet) ==
    /\ loop_state = "running"
    /\ UNCHANGED <<now, calibrated_rates, calibrations, market_result, call,
                   loop_state>>
    /\ sock_open' = IF feed = "stale" THEN force_reconnect(ws, sock_open)
                    ELSE sock_open
    /\ UNCHANGED <<is_running, sup_pc, ws, reconnect_count, last_update, last_heartbeat,
                   sub_sent, stopped, feed_log>>
    /\ IF feed = "live" /\ now - last_scan > SCAN_INTERVAL_SECONDS
       THEN \E indicators \in Indicators, listed \in Listed, book \in BookSet,
               ok \in SUBSET due_tickers :
                scan(bot_get_signal(indicators, calibrated_rates, now),
                     IF listed THEN Listing ELSE << >>, book, ok)
       ELSE UNCHANGED <<balance, positions, wins, losses, last_trade_time,
                        last_scan, state_file, poll, settle_count, gate,
                        open_times, account>>

\* One iteration under any state of the trade stream
run_iteration ==
    \E feed \in {"no_candle", "stale", "live"} :
        /\ iteration(feed, IndicatorInputs, BOOLEAN, Books)
        /\ UNCHANGED <<candle_vars, iter, fault, cycle>>

\* The same, counted: the loop is `while True` (bot_momentum.py:535) and
\* every pass through it is a step, whatever it finds
counted_iteration ==
    \E feed \in {"no_candle", "stale", "live"} :
        /\ iteration(feed, IndicatorInputs, BOOLEAN, Books)
        /\ cycle' = 1 - cycle
        /\ UNCHANGED <<candle_vars, iter, fault>>

(***************************************************************************)
(* Candle aggregator: BinanceWSServer.on_message (api.py)                  *)
(***************************************************************************)
\* Trades the stream can deliver: time in seconds, price, quantity, side
\* ('b' = buy, 's' = sell)
Trades ==
    { [time |-> 30, price |-> 100, qty |-> 2, side |-> "b"],
      [time |-> 59, price |-> 103, qty |-> 1, side |-> "s"],
      [time |-> 59, price |-> 98, qty |-> 0, side |-> "b"],
      [time |-> 60, price |-> 101, qty |-> 3, side |-> "s"],
      [time |-> 121, price |-> 99, qty |-> 1, side |-> "b"] }

NoTradeMsg == [time |-> 0, price |-> 0, qty |-> 0, side |-> "-"]

\* line 64: trade_time.floor('min')
Floor(ts) == ts - (ts % 60)

Max(a, b) == IF a >= b THEN a ELSE b
Min(a, b) == IF a <= b THEN a ELSE b

\* the private per-minute fields of the aggregator, as one record
minute_fields ==
    [current_minute |-> _current_minute, open |-> _minute_open,
     high |-> _minute_high, low |-> _minute_low,
     volume |-> _minute_volume, taker |-> _taker_buy_volume]

\* line 67: a minute is being tracked and the trade belongs to another one
new_minute(f, trade) ==
    f.current_minute # << >> /\ <<Floor(trade.time)>> # f.current_minute

\* (variant: the volumes are carried over into the new minute)
start_minute_volume_kept(f, trade) ==
    IF new_minute(f, trade)
    THEN [f EXCEPT !.open = <<trade.price>>, !.high = <<trade.price>>,
                   !.low = <<trade.price>>]
    ELSE f

\* lines 67-74: the private fields restart on a new minute
start_minute(f, trade) ==
    IF new_minute(f, trade)
    THEN [f EXCEPT !.open = <<trade.price>>, !.high = <<trade.price>>,
                   !.low = <<trade.price>>, !.volume = 0, !.taker = 0]
    ELSE f

\* (variant: the high is not raised within a minute)
accumulate_high_kept(f, trade) ==
    LET g == IF f.open = << >>
             THEN [f EXCEPT !.open = <<trade.price>>, !.high = <<trade.price>>,
                            !.low = <<trade.price>>]
             ELSE f
    IN  [g EXCEPT !.current_minute = <<Floor(trade.time)>>,
                  !.low = <<Min(g.low[1], trade.price)>>,
                  !.volume = @ + trade.qty,
                  !.taker = IF trade.side = "b" THEN @ + trade.qty ELSE @]

\* lines 76-87: the trade is accumulated into the private fields
accumulate(f, trade) ==
    LET g == IF f.open = << >>
             THEN [f EXCEPT !.open = <<trade.price>>, !.high = <<trade.price>>,
                            !.low = <<trade.price>>]
             ELSE f
    IN  [g EXCEPT !.current_minute = <<Floor(trade.time)>>,
                  !.high = <<Max(g.high[1], trade.price)>>,
                  !.low = <<Min(g.low[1], trade.price)>>,
                  !.volume = @ + trade.qty,
                  !.taker = IF trade.side = "b" THEN @ + trade.qty ELSE @]

\* lines 89-98: the dict built for self.current_candle
candle_dict(f, price) ==
    [timestamp |-> f.current_minute[1], open |-> f.open[1], high |-> f.high[1],
     low |-> f.low[1], close |-> price, volume |-> f.volume,
     taker_buy_base |-> f.taker, is_closed |-> FALSE]

\* (variant: the existing dict is updated in place instead of being replaced)
assign_in_place(h, cur, d) ==
    IF cur = 0
    THEN [heap |-> Append(h, d), current_candle |-> Len(h) + 1]
    ELSE [heap |-> [h EXCEPT ![cur] = d], current_candle |-> cur]

\* line 89: self.current_candle is bound to the new dict, a fresh object
assign_candle(h, cur, d) ==
    [heap |-> Append(h, d), current_candle |-> Len(h) + 1]

\* on_message, lines 38-88, for one trade: the time of the message is noted
\* (line 40), the candle of the minute that ended is flagged in place (line
\* 69) and the private fields are updated.  Only the flag is visible to the
\* decision loop.
receive_trade(trade) ==
    /\ ws_pc = "idle"
    /\ Len(trade_log) < MaxTrades
    /\ \E closing \in {new_minute(minute_fields, trade) /\ current_candle # 0} :
       \E f \in {accumulate(start_minute(minute_fields, trade), trade)} :
        /\ heap' = IF closing
                   THEN [heap EXCEPT ![current_candle].is_closed = TRUE]
                   ELSE heap
        /\ closed_candles' = IF closing
                             THEN Append(closed_candles, heap'[current_candle])
                             ELSE closed_candles
        /\ _current_minute' = f.current_minute
        /\ _minute_open' = f.open
        /\ _minute_high' = f.high
        /\ _minute_low' = f.low
        /\ _minute_volume' = f.volume
        /\ _taker_buy_volume' = f.taker
    /\ ws_pc' = "assign"
    /\ ws_trade' = trade
    /\ UNCHANGED <<current_candle, trade_log, published>>
    /\ UNCHANGED <<loop_pc, loop_c, loop_row, history_df, loops, reads>>
    /\ last_update' = now
    /\ UNCHANGED <<last_heartbeat, ledger_vars, call, loop_vars>>

\* a trade message arrives from the stream
ws_trade_received ==
    \E trade \in Trades :
        /\ receive_trade(trade)
        /\ UNCHANGED <<is_running, sup_pc, ws, sock_open, reconnect_count,
                       sub_sent, stopped, feed_log, iter>>

\* on_message, lines 89-98: the new candle dict replaces self.current_candle
ws_candle_assigned ==
    /\ ws_pc = "assign"
    /\ \E d \in {candle_dict(minute_fields, ws_trade.price)} :
       \E a \in {assign_candle(heap, current_candle, d)} :
        /\ heap' = a.heap
        /\ current_candle' = a.current_candle
        /\ published' = Append(published, d)
    /\ trade_log' = Append(trade_log, ws_trade)
    /\ ws_pc' = "idle"
    /\ ws_trade' = NoTradeMsg
    /\ UNCHANGED <<_current_minute, _minute_open, _minute_high, _minute_low,
                   _minute_volume, _taker_buy_volume, closed_candles>>
    /\ UNCHANGED <<loop_pc, loop_c, loop_row, history_df, loops, reads>>
    /\ UNCHANGED <<ledger_vars, call, feed_vars, loop_vars>>

(***************************************************************************)
(* Decision loop reading the shared candle (bot_momentum.py)               *)
(***************************************************************************)
HISTORY_CAPACITY == 100

NoRead == [closed_at_start |-> 0, lo |-> 0, hi |-> 0, row |-> << >>, done |-> FALSE]

\* lines 240-245: the history row built from a candle dict
history_row(c) ==
    [timestamp |-> c.timestamp, open |-> c.open, high |-> c.high, low |-> c.low,
     close |-> c.close, vwap |-> c.close, volume |-> c.volume, count |-> 1,
     taker_buy_base |-> c.taker_buy_base]

\* (variant: the history is never trimmed)
append_history_untrimmed(df, row) == Append(df, row)

\* lines 246-248: append, then keep the last 100 rows
append_history(df, row) ==
    LET d == Append(df, row)
    IN  IF Len(d) > HISTORY_CAPACITY
        THEN SubSeq(d, Len(d) - HISTORY_CAPACITY + 1, Len(d))
        ELSE d

\* lines 257-263: the keys of the shared dict in the order they are read
indicator_reads ==
    <<"open", "high", "low", "close", "close", "volume", "taker_buy_base", "timestamp">>

\* the values those reads return when the dict does not change meanwhile
indicator_row(c) == [k \in DOMAIN indicator_reads |-> c[indicator_reads[k]]]

\* update_history line 237: truth test of self.ws.current_candle
uh_test ==
    /\ loop_pc = "update_history"
    /\ loops < MaxLoops
    /\ loop_pc' = IF current_candle # 0 THEN "uh_ref" ELSE "check_candle"
    /\ reads' = [NoRead EXCEPT !.closed_at_start = Len(closed_candles)]
    /\ loop_row' = << >>
    /\ UNCHANGED <<loop_c, history_df, loops>>
    /\ UNCHANGED <<heap, current_candle, _current_minute, _minute_open, _minute_high,
                   _minute_low, _minute_volume, _taker_buy_volume, ws_pc, ws_trade,
                   trade_log, closed_candles, published>>
    /\ UNCHANGED <<ledger_vars, call, feed_vars, loop_vars>>

\* update_history line 238: c = self.ws.current_candle
uh_ref ==
    /\ loop_pc = "uh_ref"
    /\ loop_c' = current_candle
    /\ loop_pc' = "uh_closed"
    /\ UNCHANGED <<loop_row, history_df, loops, reads>>
    /\ UNCHANGED <<heap, current_candle, _current_minute, _minute_open, _minute_high,
                   _minute_low, _minute_volume, _taker_buy_volume, ws_pc, ws_trade,
                   trade_log, closed_candles, published>>
    /\ UNCHANGED <<ledger_vars, call, feed_vars, loop_vars>>

\* update_history lines 239-248: a candle seen closed is appended to the history
uh_closed ==
    /\ loop_pc = "uh_closed"
    /\ history_df' = IF heap[loop_c].is_closed
                     THEN append_history(history_df, history_row(heap[loop_c]))
                     ELSE history_df
    /\ loop_pc' = "check_candle"
    /\ UNCHANGED <<loop_c, loop_row, loops, reads>>
    /\ UNCHANGED <<heap, current_candle, _current_minute, _minute_open, _minute_high,
                   _minute_low, _minute_volume, _taker_buy_volume, ws_pc, ws_trade,
                   trade_log, closed_candles, published>>
    /\ UNCHANGED <<ledger_vars, call, feed_vars, loop_vars>>

\* run lines 539-549: no candle yet, or a stale feed, ends the iteration
check_candle ==
    /\ loop_pc = "check_candle"
    /\ \E stale \in BOOLEAN :
        IF current_candle = 0 \/ stale
        THEN /\ loop_pc' = "update_history"
             /\ loops' = loops + 1
        ELSE /\ loop_pc' = "gi_test"
             /\ loops' = loops
    /\ UNCHANGED <<loop_c, loop_row, history_df, reads>>
    /\ UNCHANGED <<heap, current_candle, _current_minute, _minute_open, _minute_high,
                   _minute_low, _minute_volume, _taker_buy_volume, ws_pc, ws_trade,
                   trade_log, closed_candles, published>>
    /\ UNCHANGED <<ledger_vars, call, feed_vars, loop_vars>>

\* get_current_indicators lines 255-256: truth test, then c = self.ws.current_candle
gi_ref ==
    /\ loop_pc = "gi_test"
    /\ loop_c' = current_candle
    /\ loop_row' = << >>
    /\ reads' = [reads EXCEPT !.lo = Len(published)]
    /\ loop_pc' = "gi_read"
    /\ UNCHANGED <<history_df, loops>>
    /\ UNCHANGED <<heap, current_candle, _current_minute, _minute_open, _minute_high,
                   _minute_low, _minute_volume, _taker_buy_volume, ws_pc, ws_trade,
                   trade_log, closed_candles, published>>
    /\ UNCHANGED <<ledger_vars, call, feed_vars, loop_vars>>

\* get_current_indicators lines 257-263: one subscript read of the dict c.
\* After the last one the row is complete and the iteration carries on with
\* the signal and the ledger, which do not touch the candle.
gi_read ==
    /\ loop_pc = "gi_read"
    /\ \E row \in {Append(loop_row, heap[loop_c][indicator_reads[Len(loop_row) + 1]])} :
        IF Len(row) = Len(indicator_reads)
        THEN /\ reads' = [reads EXCEPT !.hi = Len(published), !.row = row, !.done = TRUE]
             /\ loop_row' = << >>
             /\ loop_pc' = "update_history"
             /\ loops' = loops + 1
        ELSE /\ loop_row' = row
             /\ UNCHANGED <<reads, loop_pc, loops>>
    /\ UNCHANGED <<loop_c, history_df>>
    /\ UNCHANGED <<heap, current_candle, _current_minute, _minute_open, _minute_high,
                   _minute_low, _minute_volume, _taker_buy_volume, ws_pc, ws_trade,
                   trade_log, closed_candles, published>>
    /\ UNCHANGED <<ledger_vars, call, feed_vars, loop_vars>>

(***************************************************************************)
(* The feature vector of a row (features.py, bot_momentum.py:250-266)      *)
(***************************************************************************)
\* the close column of a frame
closes(df) == [i \in DOMAIN df |-> df[i].close]

\* features.py:22-23: df['close'].pct_change(k) at row i, in units of
\* 0.0001; NaN in the first k rows
pct_change(close, k, i) ==
    IF i <= k THEN NaN
    ELSE Num((10000 * (close[i] - close[i - k])) \div close[i - k])

\* Row i of add_technical_indicators(df): the fields the signal engine
\* reads.  Each depends on the rows up to i only.
indicators_at(df, i) ==
    [rsi_14 |-> rsi_14(SubSeq(closes(df), 1, i)),
     return_5m |-> pct_change(closes(df), 5, i),
     return_15m |-> pct_change(closes(df), 15, i)]

\* lines 257-262: the row built from the values read from the candle dict,
\* given in the order of indicator_reads
live_row(r) ==
    [timestamp |-> r[8], open |-> r[1], high |-> r[2], low |-> r[3],
     close |-> r[4], vwap |-> r[5], volume |-> r[6], count |-> 1,
     taker_buy_base |-> r[7]]

\* (variant: the current candle is not added to the copy)
temp_df_without_current(df, row) == df

\* lines 252-263: temp_df.loc[c['timestamp']] = new_row on a copy of the
\* history: every row that carries the label is overwritten, and the row
\* is added at the end when none does
temp_df(df, row) ==
    IF \E i \in DOMAIN df : df[i].timestamp = row.timestamp
    THEN [i \in DOMAIN df |->
            IF df[i].timestamp = row.timestamp THEN row ELSE df[i]]
    ELSE Append(df, row)

\* lines 265-266: add_technical_indicators(temp_df).iloc[-1]
get_current_indicators(df, row) ==
    indicators_at(temp_df(df, row), Len(temp_df(df, row)))

(***************************************************************************)
(* Warm-up of the history (fetch_initial_history, bot_momentum.py:202-233)  *)
(***************************************************************************)
\* The OHLC answer of the exchange with k entries: one per minute, oldest
\* first, the last one being the minute in progress (bucket 0)
KrakenOHLC(k) ==
    [i \in 1..k |->
        [timestamp |-> 0 - 60 * (k - i), open |-> 100, high |-> 102,
         low |-> 99, close |-> 100 + (i % 3), vwap |-> 100, volume |-> 2,
         count |-> 5]]

\* lengths of the answers that are followed: they leave 99 and 100 rows
KrakenAnswers == {100, 102}

\* (variant: the slice keeps the last entry, the minute in progress)
warm_slice_with_last(ohlc) ==
    IF Len(ohlc) > HISTORY_CAPACITY
    THEN SubSeq(ohlc, Len(ohlc) - HISTORY_CAPACITY + 1, Len(ohlc))
    ELSE ohlc

\* line 222: ohlc_data[-101:-1] if len(ohlc_data) > 100 else ohlc_data[:-1]
warm_slice(ohlc) ==
    IF Len(ohlc) > HISTORY_CAPACITY
    THEN SubSeq(ohlc, Len(ohlc) - HISTORY_CAPACITY, Len(ohlc) - 1)
    ELSE SubSeq(ohlc, 1, Len(ohlc) - 1)

\* lines 217-231: fewer than two entries give an empty frame; otherwise the
\* rows of the slice, with taker_buy_base estimated as half the volume
fetch_initial_history(ohlc) ==
    IF Len(ohlc) < 2 THEN << >>
    ELSE [i \in DOMAIN warm_slice(ohlc) |->
            [timestamp |-> warm_slice(ohlc)[i].timestamp,
             open |-> warm_slice(ohlc)[i].open,
             high |-> warm_slice(ohlc)[i].high,
             low |-> warm_slice(ohlc)[i].low,
             close |-> warm_slice(ohlc)[i].close,
             vwap |-> warm_slice(ohlc)[i].vwap,
             volume |-> warm_slice(ohlc)[i].volume,
             count |-> warm_slice(ohlc)[i].count,
             taker_buy_base |-> warm_slice(ohlc)[i].volume \div 2]]

\* the trades the stream delivers after a warm-up: one in each of three
\* minutes
WarmTrades == {tr \in Trades : tr.price \in {100, 101, 99}}

warm_trade_received ==
    \E trade \in WarmTrades :
        /\ receive_trade(trade)
        /\ UNCHANGED <<is_running, sup_pc, ws, sock_open, reconnect_count,
                       sub_sent, stopped, feed_log, iter>>

(***************************************************************************)
(* Connection supervisor: BinanceWSServer._run, start, stop (api.py)       *)
(***************************************************************************)
STALE_SECONDS == 15

\* successful connections that are followed
MaxConnects == 2
\* trades that are followed together with the supervisor
MaxFeedTrades == 1
\* clock samples that are followed together with the supervisor, or with
\* exceptions
MaxShortSamples == 4

\* the trade the stream delivers while the supervisor is followed
FeedTrades == {tr \in Trades : tr.price = 100}

NoIter == [ran |-> FALSE, stale |-> FALSE, candle |-> FALSE, forced |-> FALSE,
           evaluated |-> FALSE, opened |-> FALSE]

\* the state after BinanceWSServer.__init__ (lines 17-28) and start() (lines
\* 156-163, called at bot_momentum.py:32): the thread is at the top of _run
InitFeed ==
    /\ is_running = TRUE
    /\ sup_pc = "while"
    /\ ws = 0
    /\ sock_open = FALSE
    /\ reconnect_count = 0
    /\ last_update = 0
    /\ last_heartbeat = now
    /\ sub_sent = FALSE
    /\ stopped = FALSE
    /\ feed_log = [attempt_after_stop |-> FALSE, unsubscribed_trade |-> FALSE]
    /\ iter = NoIter

\* _run line 127: while self.is_running
sup_while ==
    /\ sup_pc = "while"
    /\ sup_pc' = IF is_running THEN "connect" ELSE "exited"
    /\ UNCHANGED <<is_running, ws, sock_open, reconnect_count, last_update, last_heartbeat,
                   sub_sent, stopped, feed_log, iter>>
    /\ UNCHANGED <<ledger_vars, candle_vars, call, loop_vars>>

\* _run lines 128-139: a WebSocketApp is created and run_forever connects.
\* On success on_open (lines 112-123) counts the connection and sends the
\* subscription; on failure run_forever returns or raises.
sup_connect ==
    /\ sup_pc = "connect"
    /\ \E ok \in IF reconnect_count < MaxConnects THEN BOOLEAN ELSE {FALSE} :
        /\ ws' = 1
        /\ sock_open' = ok
        /\ reconnect_count' = IF ok THEN reconnect_count + 1 ELSE reconnect_count
        /\ sub_sent' = ok
        /\ sup_pc' = IF ok THEN "run_forever" ELSE "after_run"
    /\ feed_log' = [feed_log EXCEPT !.attempt_after_stop = @ \/ stopped]
    /\ UNCHANGED <<is_running, last_update, last_heartbeat, stopped, iter>>
    /\ UNCHANGED <<ledger_vars, candle_vars, call, loop_vars>>

\* run_forever returns (line 139): the peer disconnected, an error or a ping
\* timeout occurred, or the connection was closed by force_reconnect or stop
sup_disconnected ==
    /\ sup_pc = "run_forever"
    /\ ws_pc = "idle"
    /\ sock_open' = FALSE
    /\ sup_pc' = "after_run"
    /\ UNCHANGED <<is_running, ws, reconnect_count, last_update, last_heartbeat, sub_sent,
                   stopped, feed_log, iter>>
    /\ UNCHANGED <<ledger_vars, candle_vars, call, loop_vars>>

\* _run line 143: if self.is_running
sup_after_run ==
    /\ sup_pc = "after_run"
    /\ sup_pc' = IF is_running THEN "sleep" ELSE "while"
    /\ UNCHANGED <<is_running, ws, sock_open, reconnect_count, last_update, last_heartbeat,
                   sub_sent, stopped, feed_log, iter>>
    /\ UNCHANGED <<ledger_vars, candle_vars, call, loop_vars>>

\* _run line 145: time.sleep(2) returns
sup_sleep ==
    /\ sup_pc = "sleep"
    /\ sup_pc' = "while"
    /\ UNCHANGED <<is_running, ws, sock_open, reconnect_count, last_update, last_heartbeat,
                   sub_sent, stopped, feed_log, iter>>
    /\ UNCHANGED <<ledger_vars, candle_vars, call, loop_vars>>

\* stop (lines 165-168), called from another thread
stop ==
    /\ ~stopped
    /\ is_running' = FALSE
    /\ sock_open' = IF ws # 0 THEN FALSE ELSE sock_open
    /\ stopped' = TRUE
    /\ UNCHANGED <<sup_pc, ws, reconnect_count, last_update, last_heartbeat, sub_sent,
                   feed_log, iter>>
    /\ UNCHANGED <<ledger_vars, candle_vars, call, loop_vars>>

\* on_message lines 38-51 for a subscription status, heartbeat or system
\* status message
on_message_status ==
    /\ sup_pc = "run_forever"
    /\ sock_open
    /\ ws_pc = "idle"
    /\ last_update' = now
    /\ \E event \in {"subscriptionStatus", "heartbeat", "systemStatus"} :
        last_heartbeat' = IF event = "subscriptionStatus" THEN last_heartbeat
                          ELSE now
    /\ UNCHANGED <<is_running, sup_pc, ws, sock_open, reconnect_count,
                   sub_sent, stopped, feed_log, iter>>
    /\ UNCHANGED <<ledger_vars, candle_vars, call, loop_vars>>

\* api.py:100-101 on_ping: a websocket ping of the server arrives
on_ping ==
    /\ sup_pc = "run_forever"
    /\ sock_open
    /\ ws_pc = "idle"
    /\ last_heartbeat' = now
    /\ UNCHANGED <<is_running, sup_pc, ws, sock_open, reconnect_count,
                   last_update, sub_sent, stopped, feed_log, iter>>
    /\ UNCHANGED <<ledger_vars, candle_vars, call, loop_vars>>

\* api.py:103-104 on_pong: the answer to a ping of run_forever
\* (ping_interval=20, line 139) arrives
on_pong ==
    /\ sup_pc = "run_forever"
    /\ sock_open
    /\ ws_pc = "idle"
    /\ last_heartbeat' = now
    /\ UNCHANGED <<is_running, sup_pc, ws, sock_open, reconnect_count,
                   last_update, sub_sent, stopped, feed_log, iter>>
    /\ UNCHANGED <<ledger_vars, candle_vars, call, loop_vars>>

\* on_message for a trade delivered on the open connection
on_message_trade ==
    /\ sup_pc = "run_forever"
    /\ sock_open
    /\ Len(trade_log) < MaxFeedTrades
    /\ \E trade \in FeedTrades : receive_trade(trade)
    /\ feed_log' = [feed_log EXCEPT !.unsubscribed_trade = @ \/ ~sub_sent]
    /\ UNCHANGED <<is_running, sup_pc, ws, sock_open, reconnect_count,
                   sub_sent, stopped, iter>>

\* the clock advances to the next sample
short_tick ==
    /\ now < StartTime + SampleOffsets[MaxShortSamples]
    /\ Tick

\* clock samples that are followed together with exceptions: the last one
\* leaves time for a poll after a settlement that failed
MaxFaultSamples == 5

fault_tick ==
    /\ now < StartTime + SampleOffsets[MaxFaultSamples]
    /\ Tick

\* update_history (bot_momentum.py:235-248) run without interruption
update_history(df, h, cur) ==
    IF cur # 0 /\ h[cur].is_closed
    THEN append_history(df, history_row(h[cur]))
    ELSE df

\* what run lines 539-549 find of the trade stream
feed_status ==
    IF current_candle = 0 THEN "no_candle"
    ELSE IF now - last_update > STALE_SECONDS THEN "stale"
    ELSE "live"

\* the feature vector, listing and order book of the iterations that are
\* followed together with the supervisor
FeedIndicators == {v \in IndicatorInputs : v.rsi_14 = 72}
FeedBooks == {b \in Books : b.exists /\ b.yes = <<30, 40>>}

\* One iteration of run (lines 535-693) on the state of the trade stream
feed_step ==
    \E feed \in {feed_status} :
        /\ iteration(feed, FeedIndicators, {TRUE}, FeedBooks)
        /\ history_df' = update_history(history_df, heap, current_candle)
        /\ iter' = [ran |-> TRUE, stale |-> now - last_update > STALE_SECONDS,
                    candle |-> current_candle # 0,
                    forced |-> feed = "stale", evaluated |-> feed = "live",
                    opened |-> Len(positions') > Len(positions)]
        /\ UNCHANGED <<heap, current_candle, _current_minute, _minute_open,
                       _minute_high, _minute_low, _minute_volume,
                       _taker_buy_volume, ws_pc, ws_trade, loop_pc, loop_c,
                       loop_row, loops, trade_log, closed_candles, published,
                       reads, fault>>

feed_iteration == feed_step /\ UNCHANGED cycle

\* The same, counted, as counted_iteration
counted_feed_iteration == feed_step /\ cycle' = 1 - cycle

(***************************************************************************)
(* The try/except around one iteration (run, lines 535-693)                *)
(***************************************************************************)
NoFault == [raised |-> FALSE, kind |-> "none", point |-> "none", t |-> 0]

InitLoop ==
    /\ loop_state = "running"
    /\ fault = NoFault
    /\ cycle = 0

\* Exceptions: KeyboardInterrupt, and any subclass of Exception
ExceptionKinds == {"Exception", "KeyboardInterrupt"}

\* (variant: the exception is not caught at the loop boundary)
handle_exception_uncaught(kind) == "ended"

\* lines 681-693: KeyboardInterrupt leaves the loop (break); any other
\* exception is printed and the loop goes on after 5 seconds
handle_exception(kind) ==
    IF kind = "KeyboardInterrupt" THEN "ended" ELSE "running"

\* The statements of one iteration at which an exception is followed:
\*   before_scan        lines 537-586 (history, indicators, signal, log_event)
\*   gate               the queries and log_event calls of lines 597-642
\*                      (get_markets, get_orderbook, a rejection being logged)
\*   log_trade_opened   line 665, after the debit and the append
\*   save_state_opened  line 666
\*   log_event_opened   line 674
\*   log_settled        lines 453-464, after the credit of lines 447-451
\*   save_state_settled line 469, after the position is marked
\*   stats_settled      line 472
FaultPoints ==
    {"before_scan", "gate", "log_trade_opened", "save_state_opened",
     "log_event_opened", "log_settled", "save_state_settled", "stats_settled"}

\* A state file that json.load cannot parse: open(..., 'w') at line 187
\* empties the file before json.dump at line 188 writes it
Truncated == [exists |-> TRUE, readable |-> FALSE]

Readable(file) == file.exists /\ "balance" \in DOMAIN file

\* what a save_state that raises leaves on disk: the old file when open()
\* fails, a truncated one when the write fails
failed_save(file) == {file, Truncated}

\* the scan block (lines 589-677) up to an exception raised at point
faulty_scan(point, signal, markets, book, ok) ==
    \E g \in {execution_gate(signal, now, markets, book, balance, positions,
                             last_trade_time)} :
    \E opened \in {g.outcome = "opened"} :
    \E o \in {IF opened
               THEN open_position(g, balance, positions, wins, losses)
               ELSE [balance |-> balance, positions |-> positions,
                     state_file |-> state_file]} :
        /\ last_scan' = now
        /\ IF point = "gate"
           THEN /\ g.outcome \notin {"no_signal", "cap"}
                /\ UNCHANGED <<balance, positions, wins, losses,
                               last_trade_time, state_file, settle_count,
                               open_times, account>>
           ELSE IF point \in {"log_trade_opened", "save_state_opened",
                              "log_event_opened"}
           THEN /\ opened
                /\ balance' = o.balance
                /\ positions' = o.positions
                /\ last_trade_time' = now
                /\ open_times' = Append(open_times, now)
                /\ account' = booked(account, g, << >>)
                /\ state_file' \in
                      IF point = "log_trade_opened" THEN {state_file}
                      ELSE IF point = "save_state_opened"
                      THEN failed_save(state_file)
                      ELSE {o.state_file}
                /\ UNCHANGED <<wins, losses, settle_count>>
           ELSE \E j \in DOMAIN o.positions :
                \E acc \in {settle_loop_until(1, j,
                                settle_start(o.balance, o.positions, wins,
                                             losses, o.state_file), now, ok)} :
                \E pos \in {acc.positions[j]} :
                \E result \in {get_market_result(pos.ticker, ok)} :
                \E a1 \in {IF result = None THEN acc
                            ELSE credit(acc, pos, result)} :
                \E a2 \in {[a1 EXCEPT !.positions[j].settled = TRUE]} :
                    /\ past_trigger(pos, now)
                    /\ ~already_settled(pos)
                    /\ result # None
                    /\ balance' = a1.balance
                    /\ wins' = a1.wins
                    /\ losses' = a1.losses
                    /\ positions' = IF point = "log_settled"
                                    THEN a1.positions ELSE a2.positions
                    /\ state_file' \in
                          IF point = "log_settled" THEN {a1.state_file}
                          ELSE IF point = "save_state_settled"
                          THEN failed_save(a1.state_file)
                          ELSE {save_state(a2.balance, a2.positions, a2.wins,
                                           a2.losses)}
                    /\ last_trade_time' = IF opened THEN now ELSE last_trade_time
                    /\ open_times' = IF opened THEN Append(open_times, now)
                                     ELSE open_times
                    /\ account' = booked(account, g,
                                     Append(acc.resolved,
                                            [pos |-> pos, result |-> result]))
                    /\ settle_count' =
                         [k \in Tickers |->
                            settle_count[k]
                            + Cardinality({i \in DOMAIN acc.resolved :
                                           acc.resolved[i].pos.ticker = k})
                            + (IF pos.ticker = k THEN 1 ELSE 0)]

\* One iteration in which an exception is raised: the statements before it
\* have taken effect, the rest of the iteration is skipped (self.positions
\* is not replaced by new_positions, line 477), and the handler decides
\* whether the loop goes on.
raise_in_iteration ==
    /\ loop_state = "running"
    /\ \E kind \in ExceptionKinds, point \in FaultPoints :
        /\ IF point = "before_scan"
           THEN UNCHANGED <<balance, positions, wins, losses, last_trade_time,
                            last_scan, state_file, settle_count, open_times,
                            account>>
           ELSE /\ now - last_scan > SCAN_INTERVAL_SECONDS
                /\ \E indicators \in IndicatorInputs, listed \in BOOLEAN,
                      book \in Books, ok \in SUBSET due_tickers :
                       faulty_scan(point,
                           bot_get_signal(indicators, calibrated_rates, now),
                           IF listed THEN Listing ELSE << >>, book, ok)
        /\ loop_state' = handle_exception(kind)
        /\ fault' = [raised |-> TRUE, kind |-> kind, point |-> point, t |-> now]
    /\ UNCHANGED <<now, calibrated_rates, calibrations, market_result, poll,
                   gate, cycle>>
    /\ UNCHANGED <<candle_vars, call, feed_vars>>

(***************************************************************************)
(* Specifications                                                          *)
(***************************************************************************)
\* BinanceWSServer.__init__ and the loop before its first iteration
InitReceive ==
    /\ heap = << >>
    /\ current_candle = 0
    /\ _current_minute = << >>
    /\ _minute_open = << >>
    /\ _minute_high = << >>
    /\ _minute_low = << >>
    /\ _minute_volume = 0
    /\ _taker_buy_volume = 0
    /\ ws_pc = "idle"
    /\ ws_trade = NoTradeMsg
    /\ loop_pc = "update_history"
    /\ loop_c = 0
    /\ loop_row = << >>
    /\ loops = 0
    /\ trade_log = << >>
    /\ closed_candles = << >>
    /\ published = << >>
    /\ reads = NoRead

\* the history before its warm-up, or after a warm-up that failed
InitCandle == InitReceive /\ history_df = << >>

NoCall == [fn |-> "none"]

Init == InitLedger /\ InitCandle /\ InitFeed /\ InitLoop /\ call = NoCall

\* the ledger, one decision-loop iteration at a time
Next == Tick \/ finalize \/ run_iteration

Spec == Init /\ [][Next]_vars

\* the receive thread and the decision loop, statement by statement, on a
\* fresh ledger
InitStream == Init /\ state_file = NoFile /\ positions = << >>

NextCandle ==
    \/ ws_trade_received
    \/ ws_candle_assigned
    \/ uh_test
    \/ uh_ref
    \/ uh_closed
    \/ check_candle
    \/ gi_ref
    \/ gi_read

SpecCandle == InitStream /\ [][NextCandle]_vars

\* the receive thread and the decision loop, statement by statement, on a
\* history warmed up from the exchange's minute candles
InitWarmFrom(answers) ==
    /\ InitLedger /\ InitReceive /\ InitFeed /\ InitLoop /\ call = NoCall
    /\ state_file = NoFile /\ positions = << >>
    /\ calibrated_rates = CHOOSE table \in CalibrationTables : TRUE
    /\ \E k \in answers : history_df = fetch_initial_history(KrakenOHLC(k))

InitWarm == InitWarmFrom(KrakenAnswers)

NextHistory ==
    \/ warm_trade_received
    \/ ws_candle_assigned
    \/ uh_test
    \/ uh_ref
    \/ uh_closed
    \/ check_candle
    \/ gi_ref
    \/ gi_read

SpecHistory == InitWarm /\ [][NextHistory]_vars

\* the same on a history of 16 and of 20 rows, the exchange having answered
\* with 17 and 21 minutes
KrakenShortAnswers == {17, 21}

InitShortWarm == InitWarmFrom(KrakenShortAnswers)

SpecParity == InitShortWarm /\ [][NextHistory]_vars

\* the supervisor thread, the messages of the stream, stop() and the
\* decision loop, on a fresh ledger
NextFeed ==
    \/ short_tick
    \/ sup_while
    \/ sup_connect
    \/ sup_disconnected
    \/ sup_after_run
    \/ sup_sleep
    \/ stop
    \/ on_message_status
    \/ on_ping
    \/ on_pong
    \/ on_message_trade
    \/ ws_candle_assigned
    \/ feed_iteration

InitFeedStream ==
    /\ InitStream
    /\ calibrated_rates = calibrate_win_rates(
           [ok |-> FALSE, rsi_80 |-> [n |-> 0, won |-> 0],
            rsi_70_confirm |-> [n |-> 0, won |-> 0],
            drop |-> [n |-> 0, won |-> 0], spike |-> [n |-> 0, won |-> 0]])

SpecFeed == InitFeedStream /\ [][NextFeed]_vars

\* the ledger, one iteration at a time, with exceptions raised inside
\* iterations
NextFault == fault_tick \/ finalize \/ run_iteration \/ raise_in_iteration

SpecFault == InitFeedStream /\ [][NextFault]_vars

\* a restart with one open position whose market has closed, a connection
\* that is opened, lost and reopened but never delivers a trade, and a
\* decision loop that keeps iterating while the clock keeps running
InitQuiet ==
    /\ Init
    /\ state_file = save_state(DEFAULT_BALANCE - 79 * 63, <<OldPosition(FALSE)>>, 0, 0)
    /\ calibrated_rates = CHOOSE table \in CalibrationTables : TRUE

NextQuiet ==
    \/ short_tick
    \/ finalize
    \/ sup_while
    \/ sup_connect
    \/ sup_disconnected
    \/ sup_after_run
    \/ sup_sleep
    \/ on_message_status
    \/ counted_feed_iteration

SpecQuiet ==
    /\ InitQuiet
    /\ [][NextQuiet]_vars
    /\ WF_vars(short_tick)
    /\ WF_vars(counted_feed_iteration)

\* the ledger, one iteration at a time, with a decision loop that keeps
\* iterating and a clock that keeps running
NextRun == short_tick \/ finalize \/ counted_iteration

SpecRun ==
    /\ InitFeedStream
    /\ [][NextRun]_vars
    /\ WF_vars(short_tick)
    /\ WF_vars(counted_iteration)

(***************************************************************************)
(* The signal engine and the sizer as functions of their arguments         *)
(***************************************************************************)
\* expected win rates (thousandths), prices (cents) and balances (cents)
\* given to calculate_bet_size
WinRates == {0, 500, 670, 700, 806, 867, 1000, 1030}
Prices == {-1, 0, 1, 10, 48, 60, 63, 85, 99, 100, 101}
Balances == {0, 1, 3000, 5000, 50000, DEFAULT_BALANCE}

\* feature vectors around the thresholds of the rules
SignalInputs ==
    [rsi_14 : {70, 71, 75, 76, 80, 81}, return_5m : {-1, 0},
     return_15m : {-31, -30, 0}]

\* calibration tables given to strategy.get_signal: those the bot computes,
\* none, and one with an entry for each key the rules look up
RateTables ==
    CalibrationTables
    \cup { << >>,
           ("rsi_80_confirm" :> 811) @@ ("rsi_75_confirm" :> 765)
               @@ ("rsi_70_confirm" :> 701) @@ ("15m_drop" :> 688) }

\* instants in each hour of the day, and in the first hour of the next day
HourTimes == {h * 3600 + 1800 : h \in 0..24}

\* one call from the initial state, with any of the arguments above
call_calculate_bet_size ==
    /\ call = NoCall
    /\ \E expected_wr \in WinRates, price \in Prices, b \in Balances :
        /\ call' = [fn |-> "calculate_bet_size", expected_wr |-> expected_wr,
                    price |-> price, balance |-> b,
                    result |-> calculate_bet_size(expected_wr, price, b)]
        /\ UNCHANGED <<ledger_vars, candle_vars, feed_vars, loop_vars>>

call_get_signal ==
    /\ call = NoCall
    /\ \E indicators \in SignalInputs, rates \in RateTables :
        /\ call' = [fn |-> "get_signal", indicators |-> indicators,
                    rates |-> rates, result |-> get_signal(indicators, rates)]
        /\ UNCHANGED <<ledger_vars, candle_vars, feed_vars, loop_vars>>

call_bot_get_signal ==
    /\ call = NoCall
    /\ \E indicators \in SignalInputs, rates \in CalibrationTables, t \in HourTimes :
        /\ call' = [fn |-> "bot_get_signal", indicators |-> indicators,
                    rates |-> rates, t |-> t,
                    result |-> bot_get_signal(indicators, rates, t)]
        /\ UNCHANGED <<ledger_vars, candle_vars, feed_vars, loop_vars>>

\* listings given to find_best_market: the one of the exchange, the same in
\* reverse order, one with two markets closing together, and an empty one
Reverse(q) == [i \in DOMAIN q |-> q[Len(q) + 1 - i]]

Listings ==
    { Listing, Reverse(Listing), << >>,
      <<Listing[3],
        [ticker |-> "KXBTC15M-D", has_close_time |-> TRUE,
         close_time |-> StartTime + 430],
        Listing[2]>> }

\* offsets of the clock that put the time to close of the listed markets at
\* 120, 121, 879 and 880 seconds, and away from them
SelectionOffsets == {0, 9, 10, 300, 301, 309, 310, 1059, 1060, 1100}

call_find_best_market ==
    /\ call = NoCall
    /\ \E markets \in Listings, d \in SelectionOffsets :
        /\ call' = [fn |-> "find_best_market", markets |-> markets,
                    t |-> StartTime + d,
                    result |-> find_best_market(markets, StartTime + d)]
        /\ UNCHANGED <<ledger_vars, candle_vars, feed_vars, loop_vars>>

\* close prices given to add_technical_indicators: histories of 1 to 16
\* rows that are flat, rising, falling, alternating, rising with a drop in
\* the last rows, and rising after a drop in the second row
HistoryLengths == {1, 2, 13, 14, 15, 16}
ClosePatterns == {"flat", "rising", "falling", "zigzag", "late_drop", "early_drop"}
close_column(pattern, n) ==
    [i \in 1..n |->
        CASE pattern = "flat" -> 100
          [] pattern = "rising" -> 100 + i
          [] pattern = "falling" -> 200 - i
          [] pattern = "zigzag" -> 100 + 2 * (i % 2)
          [] pattern = "late_drop" -> IF i < 14 THEN 100 + i ELSE 141 - 2 * i
          [] pattern = "early_drop" -> IF i = 1 THEN 100 ELSE 96 + i]

call_add_technical_indicators ==
    /\ call = NoCall
    /\ \E n \in HistoryLengths, pattern \in ClosePatterns :
        /\ call' = [fn |-> "add_technical_indicators",
                    close |-> close_column(pattern, n),
                    rsi_14 |-> rsi_14(close_column(pattern, n))]
        /\ UNCHANGED <<ledger_vars, candle_vars, feed_vars, loop_vars>>

\* an hour with the boost and one without
BoostTimes == {1800, 2 * 3600 + 1800}

\* startup calibration (line 62) followed by one signal evaluation with the
\* table it produced
call_calibrated_signal ==
    /\ call = NoCall
    /\ \E data \in CalibrationData, indicators \in SignalInputs, t \in BoostTimes :
        /\ call' = [fn |-> "calibrated_signal", data |-> data,
                    rates |-> calibrate_win_rates(data),
                    indicators |-> indicators, t |-> t,
                    result |-> bot_get_signal(indicators,
                                              calibrate_win_rates(data), t)]
        /\ UNCHANGED <<ledger_vars, candle_vars, feed_vars, loop_vars>>

NextCall ==
    \/ call_calculate_bet_size
    \/ call_get_signal
    \/ call_bot_get_signal
    \/ call_calibrated_signal
    \/ call_find_best_market
    \/ call_add_technical_indicators

SpecCall == InitStream /\ [][NextCall]_vars


(***************************************************************************)
(* Properties of the position ledger                                       *)
(***************************************************************************)
\* the claimed comparison of a resolved outcome with a position's direction
OutcomeMatches(result, direction) ==
    \/ result = "yes" /\ direction = "YES"
    \/ result = "no" /\ direction = "NO"

\* the positions the latest poll resolved as wins, as losses
PollWon == {j \in DOMAIN poll.resolved :
              OutcomeMatches(poll.resolved[j].result, poll.resolved[j].pos.direction)}
PollLost == DOMAIN poll.resolved \ PollWon

RECURSIVE SumContracts(_)
SumContracts(js) ==
    IF js = {} THEN 0
    ELSE LET j == CHOOSE k \in js : TRUE
         IN  poll.resolved[j].pos.contracts + SumContracts(js \ {j})

PollResolvedTickers == {poll.resolved[j].pos.ticker : j \in DOMAIN poll.resolved}

C2_CreditOnMatch ==
    /\ balance = poll.entry.balance + 100 * SumContracts(PollWon)
    /\ wins = poll.entry.wins + Cardinality(PollWon)
    /\ losses = poll.entry.losses + Cardinality(PollLost)

\* C2 witness: one poll resolved a winning and a losing position
C2_Witness == PollWon # {} /\ PollLost # {}

\* C3: a position whose outcome was unavailable stays in the open set as it
\* was; a poll that obtained no outcome leaves balance, wins, losses and the
\* state file unchanged; and the position is queried again by the next poll.
C3_UnavailableKept ==
    /\ \A i \in DOMAIN poll.entry.positions :
          poll.entry.positions[i].ticker \in poll.unavailable =>
             \E k \in DOMAIN positions : positions[k] = poll.entry.positions[i]
    /\ poll.resolved = << >> =>
          /\ balance = poll.entry.balance
          /\ wins = poll.entry.wins
          /\ losses = poll.entry.losses
          /\ state_file = poll.entry.state_file
    /\ poll.prev_unavailable \subseteq poll.queried

\* C3 witness: the query of a finalized market failed, for a position whose
\* query had already been unavailable in the poll before
C3_Witness ==
    \E k \in poll.unavailable :
        k \in poll.prev_unavailable /\ market_result[k] # None

\* C4: a position whose close time plus 60 seconds has not passed at a poll
\* is not queried, not settled and stays in the open set unchanged.
C4_NotBeforeGrace ==
    \A i \in DOMAIN poll.entry.positions :
        LET p == poll.entry.positions[i] IN
        poll.t <= p.close_time + 60 =>
            /\ p.ticker \notin poll.queried
            /\ p.ticker \notin PollResolvedTickers
            /\ poll.marked[i] = p
            /\ \E k \in DOMAIN positions : positions[k] = p

\* C4 witness: a poll ran exactly 60 seconds after a position's close time,
\* and another position was queried in the same poll
C4_Witness ==
    /\ \E i \in DOMAIN poll.entry.positions :
          poll.t = poll.entry.positions[i].close_time + 60
    /\ poll.queried # {}

\* C10: any two position openings of one process are at least 300 seconds
\* apart.
C10_Cooldown ==
    \A i \in DOMAIN open_times : \A j \in DOMAIN open_times :
        i < j => open_times[j] - open_times[i] >= 300

\* C10 witness: a second position was opened, exactly 300 seconds after the
\* first
C10_Witness ==
    /\ Len(open_times) = 2
    /\ open_times[2] - open_times[1] = 300
    /\ gate.outcome = "opened"


(***************************************************************************)
(* Properties of the candle aggregator and of its reader                   *)
(***************************************************************************)
\* the candles the aggregator has finished with, followed by the current one
final_candles ==
    IF current_candle = 0 THEN closed_candles
    ELSE Append(closed_candles, heap[current_candle])

Buckets(log) == {Floor(log[k].time) : k \in DOMAIN log}

InBucketOrder(log) ==
    \A i, j \in DOMAIN log : i < j => Floor(log[i].time) <= Floor(log[j].time)

RECURSIVE SumQty(_, _)
SumQty(ts, buy_only) ==
    IF ts = << >> THEN 0
    ELSE (IF buy_only /\ Head(ts).side # "b" THEN 0 ELSE Head(ts).qty)
         + SumQty(Tail(ts), buy_only)

\* the candle computed by hand from the trades of bucket b
hand_candle(log, b) ==
    LET ts == SelectSeq(log, LAMBDA t : Floor(t.time) = b)
        prices == {ts[k].price : k \in DOMAIN ts}
    IN  [timestamp |-> b, open |-> ts[1].price,
         high |-> CHOOSE p \in prices : \A q \in prices : q <= p,
         low |-> CHOOSE p \in prices : \A q \in prices : p <= q,
         close |-> ts[Len(ts)].price, volume |-> SumQty(ts, FALSE),
         taker_buy_base |-> SumQty(ts, TRUE)]

ohlcv(c) ==
    [timestamp |-> c.timestamp, open |-> c.open, high |-> c.high, low |-> c.low,
     close |-> c.close, volume |-> c.volume, taker_buy_base |-> c.taker_buy_base]

\* C5: once update_history has run, every candle that had been marked
\* closed before it started is a row of the candle history (no closed
\* candle is lost between the receive thread and the decision loop).
C5_ClosedCandlePromoted ==
    loop_pc = "check_candle" =>
        \A k \in 1..reads.closed_at_start :
            \E j \in DOMAIN history_df : history_df[j] = history_row(closed_candles[k])

\* C6: a trade whose minute bucket is strictly older than the current
\* candle's bucket leaves the current candle as it was (bucket, open, high,
\* low, close, volumes, closed flag) and starts no new candle.
C6_OlderTradeIgnored ==
    \A k \in 2..Len(published) :
        Floor(trade_log[k].time) < published[k - 1].timestamp =>
            /\ published[k] = published[k - 1]
            /\ ~heap[k - 1].is_closed

\* C7: every candle the aggregator exposes, open or closed, has
\* low <= min(open, close) <= max(open, close) <= high and
\* volume >= taker_buy_volume >= 0.
C7_CandleInvariant ==
    \A i \in DOMAIN heap :
        /\ heap[i].low <= Min(heap[i].open, heap[i].close)
        /\ Max(heap[i].open, heap[i].close) <= heap[i].high
        /\ heap[i].volume >= heap[i].taker_buy_base
        /\ heap[i].taker_buy_base >= 0

\* a candle of three trades whose extremes are neither its open nor equal,
\* with buy and sell volume
C7_Witness ==
    \E i \in DOMAIN heap :
        /\ heap[i].low < heap[i].open
        /\ heap[i].open < heap[i].high
        /\ heap[i].volume > heap[i].taker_buy_base
        /\ heap[i].taker_buy_base > 0

\* C8: after trades in non-decreasing bucket order, there is exactly one
\* candle per bucket that received a trade, and its open, high, low, close,
\* volume and taker-buy volume are the first price, max price, min price,
\* last price, sum of quantities and sum of buy quantities of that bucket.
C8_AggregationCorrect ==
    (ws_pc = "idle" /\ InBucketOrder(trade_log)) =>
        /\ Len(final_candles) = Cardinality(Buckets(trade_log))
        /\ \A b \in Buckets(trade_log) :
               \E k \in DOMAIN final_candles :
                   ohlcv(final_candles[k]) = hand_candle(trade_log, b)
        /\ \A k \in DOMAIN final_candles :
               final_candles[k].is_closed <=> k < Len(final_candles)

\* three buckets received trades, in order
C8_Witness ==
    /\ ws_pc = "idle"
    /\ InBucketOrder(trade_log)
    /\ Cardinality(Buckets(trade_log)) = 3
    /\ Len(final_candles) = 3

\* C9: the row get_current_indicators reads from the current candle is the
\* row of one candle the aggregator assigned, the one current when the read
\* began or one assigned while it ran; its fields never mix two candles.
C9_ReadIsSnapshot ==
    reads.done =>
        \E k \in reads.lo..reads.hi :
            /\ k \in DOMAIN published
            /\ reads.row = indicator_row(published[k])

\* a read during which the receive thread assigned a candle with other values
C9_Witness ==
    /\ reads.done
    /\ reads.hi > reads.lo
    /\ indicator_row(published[reads.hi]) # indicator_row(published[reads.lo])


(***************************************************************************)
(* Properties of the execution gate                                        *)
(***************************************************************************)
\* the positions of a list that are not marked settled
Unsettled(ps) == {i \in DOMAIN ps : ~ps[i].settled}

\* the position the latest gate pass opened
Opened == gate.after.positions[Len(gate.after.positions)]

\* C11: a position is opened only when the position list holds fewer than 3
\* positions, and the list never holds more than 3, so the open (unsettled)
\* positions are never more than 3.
C11_ConcurrencyCap ==
    /\ Len(positions) <= MAX_POSITIONS
    /\ Cardinality(Unsettled(positions)) <= MAX_POSITIONS
    /\ Len(gate.after.positions) <= MAX_POSITIONS
    /\ gate.outcome = "opened" => Len(gate.entry.positions) < MAX_POSITIONS

\* three unsettled positions are held and a signal past its cooldown is
\* turned away by the cap
C11_Witness ==
    /\ gate.outcome = "cap"
    /\ Cardinality(Unsettled(gate.entry.positions)) = MAX_POSITIONS
    /\ gate.after = gate.entry

\* C12: the position list never holds two positions of one market; a signal
\* whose selected market is already held is rejected with balance,
\* positions and the cooldown timer as they were.
C12_NoDuplicateMarket ==
    /\ \A i, j \in DOMAIN positions :
           positions[i].ticker = positions[j].ticker => i = j
    /\ \A i, j \in DOMAIN gate.after.positions :
           gate.after.positions[i].ticker = gate.after.positions[j].ticker => i = j
    /\ gate.outcome = "duplicate" => gate.after = gate.entry

\* a signal for a market that is already held is rejected
C12_Witness ==
    /\ gate.outcome = "duplicate"
    /\ gate.entry.positions # << >>
    /\ gate.after = gate.entry

\* the bids the price of the latest opening was derived from: the side
\* opposite to the signal's direction
OpposingBids ==
    IF gate.signal.direction = "YES" THEN gate.book.no ELSE gate.book.yes

\* C13: a position is opened only when the order book exists and has a level
\* on the opposing side, at the price (100 - best opposing bid) + 3 cents,
\* and only when that price is strictly between 10 and 90 cents; a pass
\* that finds no price leaves the ledger as it was.
C13_PriceGate ==
    /\ gate.outcome = "opened" =>
           /\ gate.book.exists
           /\ OpposingBids # << >>
           /\ Opened.price = (100 - OpposingBids[Len(OpposingBids)]) + 3
           /\ 10 < Opened.price
           /\ Opened.price < 90
    /\ gate.outcome \in {"price_error", "bad_price"} => gate.after = gate.entry

\* a position opened at a price derived from a two-level book
C13_Witness ==
    /\ gate.outcome = "opened"
    /\ Len(OpposingBids) = 2
    /\ Opened.price = 63

\* C14: every opened position has p*(1-price) - (1-p)*price >= 0.02 for the
\* win rate and entry price used, and a signal rejected for its EV opens
\* nothing; p = 0.70 at price 0.60 passes the EV test, at price 0.85 it fails.
C14_EVGate ==
    /\ gate.outcome = "opened" =>
           gate.wr * (100 - Opened.price) - (1000 - gate.wr) * Opened.price >= 2000
    /\ gate.outcome = "ev" => gate.after = gate.entry
    /\ ~below_min_ev(700, 60)
    /\ below_min_ev(700, 85)

\* a position opened with an EV below 0.03, which the hourly boost lifted
\* over the threshold
C14_Witness ==
    /\ gate.outcome = "opened"
    /\ gate.wr * (100 - Opened.price) - (1000 - gate.wr) * Opened.price < 3000
    /\ Hour(gate.t) \in BEST_HOURS_UTC

\* the stake of the latest opening, recomputed from the ledger on entry
OpenedStake ==
    calculate_bet_size(gate.wr, Opened.price, gate.entry.balance)

\* C15: a position is opened only with a stake of at least 5.00, a contract
\* count floor(stake / price) of at least 1 and a cost contracts x price
\* that the balance covers; the balance is never negative.
C15_SizingAndSolvency ==
    /\ gate.outcome = "opened" =>
           /\ OpenedStake.num >= 500 * OpenedStake.den
           /\ Opened.contracts = OpenedStake.num \div (OpenedStake.den * Opened.price)
           /\ Opened.contracts >= 1
           /\ Opened.contracts * Opened.price <= gate.entry.balance
    /\ gate.outcome = "size" => gate.after = gate.entry
    /\ balance >= 0
    /\ gate.after.balance >= 0

\* a position opened with a stake below the 50.00 ceiling
C15_Witness ==
    /\ gate.outcome = "opened"
    /\ OpenedStake.num < 5000 * OpenedStake.den
    /\ Opened.contracts > 1

\* C16: on an opening the balance goes down by exactly contracts x price,
\* exactly one position is appended, for the selected market, the signal's
\* direction, the entry price, the contract count and the market's close
\* time, the cooldown timer is set to now, the state is saved, and wins and
\* losses stay.
C16_EffectOfOpening ==
    gate.outcome = "opened" =>
        /\ gate.after.balance = gate.entry.balance - Opened.contracts * Opened.price
        /\ gate.after.positions = Append(gate.entry.positions, Opened)
        /\ Opened.ticker = find_best_market(Listing, gate.t).ticker
        /\ Opened.close_time = find_best_market(Listing, gate.t).close_time
        /\ Opened.direction = gate.signal.direction
        /\ Opened.signal = gate.signal.name
        /\ Opened.price = get_best_price(gate.book, gate.signal.direction).price
        /\ ~Opened.settled
        /\ gate.after.last_trade_time = gate.t
        /\ gate.after.state_file =
               save_state(gate.after.balance, gate.after.positions,
                          gate.entry.wins, gate.entry.losses)
        /\ gate.after.wins = gate.entry.wins
        /\ gate.after.losses = gate.entry.losses

\* a position opened next to one that was already held
C16_Witness ==
    /\ gate.outcome = "opened"
    /\ gate.entry.positions # << >>
    /\ gate.entry.wins + gate.entry.losses > 0

(***************************************************************************)
(* Properties of the sizer and of the signal engine                        *)
(***************************************************************************)
\* C17: for every win rate, every price strictly between 0 and 1 and every
\* non-negative balance the stake calculate_bet_size returns is at least 0,
\* at most 50.00 and at most 0.10 x balance; for a price <= 0 or >= 1 it is 0.
C17_KellyBound ==
    call.fn = "calculate_bet_size" =>
        /\ call.result.den > 0
        /\ call.result.num >= 0
        /\ call.result.num <= 5000 * call.result.den
        /\ 10 * call.result.num <= call.balance * call.result.den
        /\ (call.price <= 0 \/ call.price >= 100) => call.result.num = 0

\* a stake strictly inside the bounds: the quarter Kelly fraction itself
C17_Witness ==
    /\ call.fn = "calculate_bet_size"
    /\ call.result.num > 0
    /\ call.result.num < 5000 * call.result.den
    /\ 10 * call.result.num < call.balance * call.result.den

\* the conditions of the four rules on the feature vector of the latest call
Rule1 == call.indicators.rsi_14 > 80 /\ call.indicators.return_5m < 0
Rule2 == call.indicators.rsi_14 > 75 /\ call.indicators.return_5m < 0
Rule3 == call.indicators.rsi_14 > 70 /\ call.indicators.return_5m < 0
Rule4 == call.indicators.return_15m < -30

\* direction and name of a signal, or of none
Fired(r) == IF r.exists THEN <<r.direction, r.name>> ELSE <<"-", "-">>

\* C18: get_signal returns the signal of the first rule that holds, in the
\* order RSI>80, RSI>75, RSI>70 (each with 5-step return < 0), 15-step
\* return < -0.003; rule 1 wins over rule 4 when both hold, and there is no
\* signal when no rule holds.
C18_SignalPriority ==
    call.fn = "get_signal" =>
        /\ Rule1 => Fired(call.result) = <<"NO", "RSI>80+DIP_GOLD">>
        /\ (~Rule1 /\ Rule2) => Fired(call.result) = <<"NO", "RSI>75+DIP">>
        /\ (~Rule1 /\ ~Rule2 /\ Rule3) => Fired(call.result) = <<"NO", "RSI>70+DIP">>
        /\ (~Rule1 /\ ~Rule2 /\ ~Rule3 /\ Rule4) =>
               Fired(call.result) = <<"YES", "15m_drop">>
        /\ (~Rule1 /\ ~Rule2 /\ ~Rule3 /\ ~Rule4) => ~call.result.exists

\* features satisfying rule 1 and rule 4 at once
C18_Witness ==
    /\ call.fn = "get_signal"
    /\ Rule1
    /\ Rule4
    /\ call.result.direction = "NO"

\* the calibration key and the built-in rate of each rule, as specified
RuleKey(name) ==
    CASE name = "RSI>80+DIP_GOLD" -> "rsi_80"
      [] name = "RSI>75+DIP" -> "rsi_75_confirm"
      [] name = "RSI>70+DIP" -> "rsi_70_confirm"
      [] name = "15m_drop" -> "15m_drop"

RuleDefault(name) ==
    CASE name = "RSI>80+DIP_GOLD" -> 806
      [] name = "RSI>75+DIP" -> 777
      [] name = "RSI>70+DIP" -> 719
      [] name = "15m_drop" -> 696

\* C19: the win rate of a signal is the calibration table's entry for the
\* rule that fired ("rsi_80" for rule 1, "rsi_75_confirm", "rsi_70_confirm",
\* "15m_drop" for rules 2, 3, 4) whenever the table has that entry, and the
\* rule's built-in rate only when it has none.
C19_RuleUsesOwnRate ==
    (call.fn = "get_signal" /\ call.result.exists) =>
        call.result.wr = Get(call.rates, RuleKey(call.result.name),
                             RuleDefault(call.result.name))

\* what strategy.get_signal returns for the arguments of the latest call
BaseSignal == get_signal(call.indicators, call.rates)

\* C20: the bot's signal exists exactly when strategy.get_signal returns one,
\* has the same direction and name, and its win rate is that of the shared
\* signal plus 0.03 in a favorable UTC hour and plus 0 in any other hour.
C20_HourBoostFrame ==
    call.fn = "bot_get_signal" =>
        /\ call.result.exists = BaseSignal.exists
        /\ BaseSignal.exists =>
               /\ call.result.direction = BaseSignal.direction
               /\ call.result.name = BaseSignal.name
               /\ Hour(call.t) \in BEST_HOURS_UTC => call.result.wr = BaseSignal.wr + 30
               /\ Hour(call.t) \notin BEST_HOURS_UTC => call.result.wr = BaseSignal.wr

\* a signal in an hour without boost, next to the favorable hour 22
C20_Witness ==
    /\ call.fn = "bot_get_signal"
    /\ call.result.exists
    /\ Hour(call.t) = 23
    /\ call.result.wr = BaseSignal.wr

(***************************************************************************)
(* Properties of calibration                                               *)
(***************************************************************************)

\* C21: every signal handed to the execution gate, after the calibration
\* lookup and the hour adjustment, has an expected win rate strictly between
\* 0 and 1, and every entry of the calibration table is strictly between 0
\* and 1.
C21_WinRateInUnitInterval ==
    call.fn = "calibrated_signal" =>
        /\ \A k \in DOMAIN call.rates :
               0 < call.rates[k] /\ call.rates[k] < 1000
        /\ call.result.exists =>
               0 < call.result.wr /\ call.result.wr < 1000

\* the number of rows calibration found for a rule, and the number it needs
\* (lines 127, 135, 144); no sample is gathered for rule 2 (line 140)
RuleSampleSize(name, data) ==
    CASE name = "RSI>80+DIP_GOLD" -> data.rsi_80.n
      [] name = "RSI>75+DIP" -> 0
      [] name = "RSI>70+DIP" -> data.rsi_70_confirm.n
      [] name = "15m_drop" -> data.drop.n

RuleMinimum(name) == IF name = "RSI>70+DIP" THEN 50 ELSE 20

\* C29: when the sample supporting a rule is below the rule's minimum size,
\* or calibration fails altogether, the win rate the signal engine reports
\* for that rule is the rule's fixed default (0.806, 0.777, 0.719, 0.696 for
\* rules 1 to 4).
C29_CalibrationFallback ==
    (/\ call.fn = "calibrated_signal"
     /\ BaseSignal.exists
     /\ \/ ~call.data.ok
        \/ RuleSampleSize(BaseSignal.name, call.data) < RuleMinimum(BaseSignal.name))
    => BaseSignal.wr = RuleDefault(BaseSignal.name)

(***************************************************************************)
(* Properties of the connection supervisor and of stale-feed handling      *)
(***************************************************************************)

\* C22: in every decision-loop iteration in which the time since the last
\* received message exceeds 15 seconds, the loop calls force_reconnect and
\* performs no indicator computation, signal evaluation or position opening.
C22_StaleFeedHandling ==
    (iter.ran /\ iter.stale) =>
        /\ iter.forced
        /\ ~iter.evaluated
        /\ ~iter.opened

\* C23: every successful connection has its trade subscription sent before
\* a trade of that connection is processed, and after stop() no further
\* connection is attempted.  (That a closed connection is followed by a new
\* attempt while the supervisor runs is a progress property of _run under
\* fair scheduling of its thread.)
C23_ReconnectResubscribe ==
    /\ sock_open => sub_sent
    /\ ~feed_log.unsubscribed_trade
    /\ ~feed_log.attempt_after_stop

(***************************************************************************)
(* Properties of the loop boundary and of persistence                      *)
(***************************************************************************)

\* C24: an exception raised anywhere inside one decision-loop iteration (in
\* a query, in a log or state-file write, or elsewhere) never terminates the
\* decision loop: the loop is still running after it, and the loop has ended
\* only if the latest exception was a keyboard interrupt.
C24_FaultContainment ==
    /\ (fault.raised /\ fault.kind # "KeyboardInterrupt") => loop_state = "running"
    /\ loop_state = "ended" => (fault.raised /\ fault.kind = "KeyboardInterrupt")

\* save_state raised while an opening was being persisted, and the loop
\* has run a later scan
C24_Witness ==
    /\ fault.raised
    /\ fault.kind = "Exception"
    /\ fault.point = "save_state_opened"
    /\ loop_state = "running"
    /\ last_scan > fault.t

\* C25: after every completed mutation of the bankroll state (an opening or
\* a settlement) the persisted record is readable and its balance, wins and
\* losses equal the values in memory, so that what a restart would load
\* differs from memory by no more than a mutation in flight.  (Every state
\* is one between iterations, with no mutation in flight.)
C25_WriteThrough ==
    IF state_file.exists
    THEN /\ Readable(state_file)
         /\ state_file.balance = balance
         /\ state_file.wins = wins
         /\ state_file.losses = losses
    ELSE /\ balance = DEFAULT_BALANCE
         /\ wins = 0
         /\ losses = 0

\* the four persisted fields as they are in memory
Ledger == [balance |-> balance, positions |-> positions, wins |-> wins,
           losses |-> losses]

TimeToClose(m) == m.close_time - call.t

\* the listed markets of the series that carry a close time lying strictly
\* between 120 and 880 seconds ahead
Eligible ==
    {i \in DOMAIN call.markets :
        /\ in_series(call.markets[i].ticker)
        /\ call.markets[i].has_close_time
        /\ TimeToClose(call.markets[i]) > 120
        /\ TimeToClose(call.markets[i]) < 880}

\* C27: find_best_market returns, among the listed markets of the KXBTC15M
\* series that carry a close time, one with the smallest time to close
\* strictly between 120 and 880 seconds, and no market when none lies in
\* that window; a market outside the window is never returned.
C27_MarketSelection ==
    call.fn = "find_best_market" =>
        IF Eligible = {}
        THEN ~call.result.exists
        ELSE /\ call.result.exists
             /\ \E i \in Eligible :
                  /\ call.markets[i].ticker = call.result.ticker
                  /\ call.markets[i].close_time = call.result.close_time
                  /\ \A k \in Eligible :
                       TimeToClose(call.markets[i]) <= TimeToClose(call.markets[k])

\* two markets in the window, the later one listed first
C27_Witness ==
    /\ call.fn = "find_best_market"
    /\ Cardinality(Eligible) = 2
    /\ call.markets[1].ticker = "KXBTC15M-N"
    /\ call.result.ticker = "KXBTC15M-A"

(***************************************************************************)
(* Properties of the RSI                                                   *)
(***************************************************************************)
\* the smoothed averages of the latest row of the close column of the call
AvgGain == ewm_mean("gain", call.close, Len(call.close))
AvgLoss == ewm_mean("loss", call.close, Len(call.close))

\* C28: for a history of fewer than 14 observations, and for any history
\* whose smoothed average loss is zero, the RSI of the latest row is 50;
\* otherwise it is 100 - 100 / (1 + avg_gain / avg_loss), that is, the value
\* r with (100 - r) * (avg_gain + avg_loss) = 100 * avg_loss.
C28_RsiDefault ==
    call.fn = "add_technical_indicators" =>
        IF Len(call.close) < 14 \/ AvgLoss = 0
        THEN call.rsi_14 = [num |-> 50, den |-> 1]
        ELSE (100 * call.rsi_14.den - call.rsi_14.num) * (AvgGain + AvgLoss)
                 = 100 * AvgLoss * call.rsi_14.den

\* a history of 14 rows or more that never falls
C28_Witness ==
    /\ call.fn = "add_technical_indicators"
    /\ Len(call.close) >= 14
    /\ AvgLoss = 0
    /\ AvgGain > 0
    /\ call.rsi_14.num = 50

(***************************************************************************)
(* Recalibration                                                           *)
(***************************************************************************)
\* C30: the calibration table is recomputed while the bot runs: after the
\* calibration of the constructor there is eventually another one.
C30_PeriodicRecalibration == <>(calibrations > 1)

(***************************************************************************)
(* Properties of the candle history                                        *)
(***************************************************************************)
\* a step that changes the history is the append of update_history: the
\* new history is the old one, without its oldest row when it was full,
\* followed by the row of a candle that had been flagged closed
C31_Append ==
    history_df' # history_df =>
        /\ loop_pc = "uh_closed"
        /\ \E k \in DOMAIN closed_candles :
            history_df' =
                (IF Len(history_df) = 100 THEN Tail(history_df) ELSE history_df)
                    \o <<history_row(closed_candles[k])>>

\* C31: the history holds at most 100 rows; it is changed only by
\* update_history, which appends the row of a candle that was closed at that
\* moment after the rows already there and evicts the oldest row of a full
\* history; get_current_indicators and the receive thread leave it as it is.
C31_BoundedFifo == [](Len(history_df) <= 100) /\ [][C31_Append]_vars

\* a closed candle of the stream was appended to a history of 100 rows
C31_Witness ==
    \E k \in KrakenAnswers :
        /\ Len(fetch_initial_history(KrakenOHLC(k))) = 100
        /\ Len(closed_candles) > 0
        /\ history_df = Tail(fetch_initial_history(KrakenOHLC(k)))
                            \o <<history_row(closed_candles[1])>>

(***************************************************************************)
(* Live and batch feature vectors                                          *)
(***************************************************************************)
\* the vector the live path returns once it has read the current candle
LiveVector == get_current_indicators(history_df, live_row(reads.row))

\* the last row the batch path computes over a candle sequence
BatchVector(candles) == indicators_at(candles, Len(candles))

\* the current candle's minute is already a row of the history
InHistory ==
    \E i \in DOMAIN history_df : history_df[i].timestamp = live_row(reads.row).timestamp

C33_PersistedOnlyOpen ==
    \A k \in DOMAIN poll.resolved :
        /\ \A i \in DOMAIN positions :
              positions[i].ticker # poll.resolved[k].pos.ticker
        /\ state_file.exists =>
              \A j \in DOMAIN state_file.positions :
                  state_file.positions[j].ticker # poll.resolved[k].pos.ticker

(***************************************************************************)
(* Staleness and keepalives                                                *)
(***************************************************************************)
\* C34: an iteration treats the stream as stale only when more than 15
\* seconds have passed since the last message of any kind, websocket pings
\* and pongs included.
C34_KeepalivesCount ==
    [][(iter' # iter /\ iter'.forced) =>
          (now - last_update > 15 /\ now - last_heartbeat > 15)]_vars

(***************************************************************************)
(* Settlement and failing writes                                           *)
(***************************************************************************)
\* C35: whatever write fails while a position is being settled, over all
\* later polls the position is credited and counted at most once.
C35_FaultNoDoubleCredit ==
    \A k \in Tickers : settle_count[k] <= 1

(***************************************************************************)
(* Restart from the persisted record                                       *)
(***************************************************************************)
\* C36: a position that carries the settled mark when a poll starts (it was
\* reloaded from the record of an earlier run) is dropped by that poll: the
\* settlement source is not asked about it, it is not credited or counted,
\* and a poll that resolves nothing leaves balance, wins and losses as they
\* were.
C36_RestartIdempotent ==
    poll.t > 0 =>
        /\ \A i \in DOMAIN poll.entry.positions :
              poll.entry.positions[i].settled =>
                  /\ poll.entry.positions[i].ticker \in poll.dropped
                  /\ poll.entry.positions[i].ticker \notin poll.queried
                  /\ settle_count[poll.entry.positions[i].ticker] = 0
                  /\ \A j \in DOMAIN positions :
                        positions[j] # poll.entry.positions[i]
        /\ poll.resolved = << >> =>
              /\ balance = poll.entry.balance
              /\ wins = poll.entry.wins
              /\ losses = poll.entry.losses

\* the first poll after a restart from a record written by a settlement:
\* both marked positions are dropped, nothing is asked or resolved
C36_Witness ==
    /\ poll.t > 0
    /\ Cardinality(poll.dropped) = 2
    /\ poll.queried = {}
    /\ wins = 1 /\ losses = 1

(***************************************************************************)
(* Settlement and the trade stream                                         *)
(***************************************************************************)
\* an open position whose trigger has passed and whose market is finalized
DuePosition ==
    \E i \in DOMAIN positions :
        /\ ~positions[i].settled
        /\ now > positions[i].close_time + 60
        /\ market_result[positions[i].ticker] # None

\* C37: while the decision loop keeps iterating, an open position whose
\* trigger has passed and whose market is finalized is eventually settled,
\* also when the trade stream has never delivered a trade.
C37_SettlementWithoutFeed == DuePosition ~> ~DuePosition

(***************************************************************************)
(* Rejected signals                                                        *)
(***************************************************************************)
\* the outcomes of the gate in which a signal was seen and not traded
Rejections ==
    {"cooldown", "cap", "no_market", "duplicate", "price_error", "bad_price",
     "ev", "size"}

\* C38: in a scan cycle in which a signal is rejected at any gate,
\* settle_positions is still invoked in that cycle, and the rejection
\* leaves the balance, the open positions and the cooldown timer unchanged.
C38_RejectionStillSettles ==
    gate.outcome \in Rejections =>
        /\ poll.t = gate.t
        /\ gate.after.balance = gate.entry.balance
        /\ gate.after.positions = gate.entry.positions
        /\ gate.after.last_trade_time = gate.entry.last_trade_time

(***************************************************************************)
(* Promotion of closed candles                                             *)
(***************************************************************************)
\* C39: under any interleaving of the receive thread and the decision loop
\* a closed candle is promoted into the history at most once: the history
\* never holds two rows of one bucket and its bucket timestamps are
\* strictly increasing.
C39_PromotedOnce ==
    \A i, j \in DOMAIN history_df :
        i < j => history_df[i].timestamp < history_df[j].timestamp

(***************************************************************************)
(* Ledger accounting                                                       *)
(***************************************************************************)
\* the sum of contracts x price over the positions of a sequence
RECURSIVE CostOf(_)
CostOf(ps) ==
    IF ps = << >> THEN 0
    ELSE ps[1].contracts * ps[1].price + CostOf(Tail(ps))

\* the sum of contracts, at one dollar each, over the settled positions
\* whose result is their direction
RECURSIVE WonOf(_)
WonOf(rs) ==
    IF rs = {} THEN 0
    ELSE LET r == CHOOSE x \in rs : TRUE
         IN  (IF Upper(r.result) = r.pos.direction
              THEN r.pos.contracts * PAYOUT_PER_CONTRACT ELSE 0)
             + WonOf(rs \ {r})

\* C40: in every reachable state of one process lifetime, wins + losses is
\* its starting value plus the number of positions settled so far, and the
\* balance is the starting balance minus the sum of contracts x price over
\* the positions opened plus the sum of contracts over the positions
\* settled as wins.
C40_LedgerAccounting ==
    /\ wins + losses = account.start.count + Cardinality(account.settled)
    /\ balance = account.start.balance - CostOf(account.opened)
                                       + WonOf(account.settled)

====
